---- MODULE Spec2Model ----
(***************************************************************************)
(* A model of coldstore (cold-storage-standard): the resource tracker of   *)
(* core/cleanup.py with the main flow of the commands and the signal       *)
(* handler that interrupts it, the tar -> zstd pipeline of                *)
(* core/compress.py, and the digest and verification logic of             *)
(* core/hash.py and commands/verify.py.                                    *)
(***************************************************************************)
EXTENDS Integers, Sequences, FiniteSets, TLC

(***************************************************************************)
(* Bounds of the model.                                                    *)
(***************************************************************************)
\* temporary tar files one run allocates (compress, decompress, info, verify)
MaxTempTars == 2
\* signals delivered to one run
MaxSignals == 2
\* callbacks registered through register_cleanup_callback
MaxCallbacks == 1
\* file contents are drawn from 0..MaxContent
MaxContent == 1
\* bytes of tar data in the artifacts that are verified
MaxPayload == 2
\* byte changes applied to a stored artifact
MaxCorruptions == 1

VARIABLES
    \* ---- core/cleanup.py: CleanupManager and the process around it ----
    frames,                     \* call stack of the main thread: frames[1] is the
                                \* main flow, every further frame a _signal_handler
    lock,                       \* _lock: 0 when free, else the depth of the holding frame
    cleanup_in_progress,        \* _cleanup_in_progress
    signal_handlers_registered, \* _signal_handlers_registered
    atexit_registered,          \* atexit holds _atexit_cleanup
    temp_files,                 \* _temp_files
    temp_directories,           \* _temp_directories
    cleanup_callbacks,          \* _cleanup_callbacks
    callbacks_run,              \* callbacks executed so far
    disposition,                \* per signal: "handler" or "original"
    disk,                       \* temporary paths that exist on the filesystem
    allocated,                  \* temporary paths this run has allocated
    temp_tar_path,              \* CompressionEngine.temp_tar_path
    temp_dir,                   \* ArchiveAnalyzer.temp_dir
    command,                    \* the command this run executes
    signals,                    \* signals delivered so far
    proc,                       \* "running", "exited" (interpreter exit), "killed" (os._exit)
    \* ---- core/compress.py: the tar -> zstd -> tar -> directory pipeline ----
    tree,                       \* the source directory tree T
    tar,                        \* entries of the tar written by create_deterministic_tar
    tar_again,                  \* entries written by a second run over the same tree
    params,                     \* level, long_mode, input size and platform of the compression
    chosen_window_log,          \* what _calculate_optimal_window_log returned
    zst,                        \* the .tar.zst artifact: frame window log and payload
    out_tar,                    \* the tar written by decompress_with_zstd
    extracted,                  \* the tree materialized by extract_tar_archive
    pstage,                     \* position in the pipeline
    \* ---- core/hash.py and commands/verify.py ----
    artifact,                   \* bytes of the live .tar.zst file
    readable,                   \* the live file can be opened and read
    sidecar,                    \* per algorithm: the sidecar's content, or NoFile
    corruptions,                \* bytes of the live file changed since it was stored
    hash_results,               \* the dict verify_all_hashes returns
    results,                    \* the dict verify_single_archive returns
    exit_code,                  \* exit status of the verify command
    vstage,                     \* position in the verify scenario
    \* ---- commands/verify.py: show_verification_results ----
    check_result,               \* one archive's per-check results, as passed in
    overall_status,             \* the aggregate status shown
    \* ---- commands/pack.py and core/organizer.py ----
    input_path,                 \* name and kind of the input
    options,                    \* --flat, --no-check, --no-par2
    output_dir,                 \* --output-dir: "cwd" or another directory "D"
    base_name,                  \* FileOrganizer.base_name
    output_files,               \* FileOrganizer.output_files
    outputs,                    \* kinds of output files that exist on disk
    failure,                    \* the pipeline stage that failed, or None
    pack_exit,                  \* exit status of pack
    existing_before,            \* the output files that existed when pack started
    preserved,                  \* of those, the ones neither deleted nor overwritten so far
    kstage,                     \* position in pack
    \* ---- commands/repair.py ----
    verify_only,                \* --verify-only
    environment,                \* par2 tool in PATH, .par2 file present
    verification_result,        \* what verify_par2 returned
    repair_result,              \* what repair_files returned
    repair_calls,               \* calls of repair_files so far
    diagnosis,                  \* what the command told the user last
    repair_exit,                \* exit status of repair
    rstage,                     \* position in repair
    \* ---- core/handlers.py: extract_all ----
    handler,                    \* the handler variant, its platform and its library
    archive_entries,            \* archive-internal paths, in archive order
    materialized,               \* what extract_all wrote: entry, root and path
    extract_ok,                 \* what extract_all returned
    hstage,                     \* position of the extraction
    \* ---- core/format_detector.py: detect_format ----
    file_path,                  \* the path detect_format is given
    detected_format,            \* what detect_format returned
    dstage,                     \* position of the detection
    \* ---- core/archive.py: ArchiveAnalyzer ----
    archive,                    \* the archive analyze_archive_structure is given
    entries,                    \* the entry list _analyze_structure is given
    structure_info,             \* the StructureInfo returned
    grown_from,                 \* the kind the list had before an entry was added
    growths,                    \* entries added so far
    astage,                     \* position of the analysis
    \* ---- core/cleanup.py: cleanup_orphaned_temps ----
    temp_base,                  \* the entries of the system temp directory
    current_time,               \* time.time() at the sweep
    swept,                      \* the entries the sweep removed
    sstage,                     \* position of the startup sweep
    \* ---- core/compress.py: _calculate_optimal_window_log ----
    input_size,                 \* the size _calculate_optimal_window_log is given
    host,                       \* the platform it runs on
    optimal_window_log,         \* what it returned
    wstage,                     \* position of the calculation
    \* ---- core/archive.py: handle_nested_structure ----
    nested_info,                \* the StructureInfo handle_nested_structure is given
    root_state,                 \* the extracted root folder on disk
    nested_result,              \* the path handle_nested_structure returned
    nstage,                     \* position of the call
    \* ---- core/compress.py: create_deterministic_tar with unreadable entries ----
    tar_source,                 \* the source path create_deterministic_tar is given
    tar_writable,               \* whether the output tar can be opened for writing
    tar_outcome,                \* what create_deterministic_tar returned and wrote
    tstage,                     \* position of the call
    \* ---- forced removal with retries ----
    remove_target,              \* the path handed to _force_remove_file or _force_remove_directory, with what the filesystem does
    remove_outcome,             \* what the removal returned and did
    mstage,                     \* position of the removal
    \* ---- process command ----
    process_input,              \* the arguments of the process command and what its environment answers
    process_outcome,            \* how far main of the process command got
    ostage                      \* position of the process command

cleanupVars == <<frames, lock, cleanup_in_progress, signal_handlers_registered,
                 atexit_registered, temp_files, temp_directories, cleanup_callbacks,
                 callbacks_run, disposition, disk,
                 allocated, temp_tar_path, temp_dir, command, signals, proc>>

pipeVars == <<tree, tar, tar_again, params, chosen_window_log, zst, out_tar,
              extracted, pstage>>

verifyVars == <<artifact, readable, sidecar, corruptions, hash_results, results,
                exit_code, vstage>>

showVars == <<check_result, overall_status>>

packVars == <<input_path, options, output_dir, base_name, output_files, outputs,
              failure, pack_exit, existing_before, preserved, kstage>>

\* the state of the commands and functions modelled further down
repairVars == <<verify_only, environment, verification_result, repair_result,
                repair_calls, diagnosis, repair_exit, rstage>>

handlerVars == <<handler, archive_entries, materialized, extract_ok, hstage>>

detectVars == <<file_path, detected_format, dstage>>

analyzeVars == <<archive, entries, structure_info, grown_from, growths, astage>>

sweepVars == <<temp_base, current_time, swept, sstage>>

windowVars == <<input_size, host, optimal_window_log, wstage>>

nestedVars == <<nested_info, root_state, nested_result, nstage>>

tarfailVars == <<tar_source, tar_writable, tar_outcome, tstage>>

removeVars == <<remove_target, remove_outcome, mstage>>

processVars == <<process_input, process_outcome, ostage>>

extVars == <<packVars, repairVars, handlerVars, detectVars, analyzeVars, sweepVars, windowVars, nestedVars, tarfailVars, removeVars, processVars>>

vars == <<cleanupVars, pipeVars, verifyVars, showVars, extVars>>

Commands == {"pack", "verify", "extract", "process"}
Signals == {"SIGINT", "SIGTERM"}
NoPath == <<"none", 0>>
TarPath(n) == <<"tar", n>>
DirPath == <<"dir", 1>>

(***************************************************************************)
(* Sequence helpers.                                                       *)
(***************************************************************************)
SeqToSet(s) == {s[i] : i \in 1..Len(s)}

RECURSIVE RemoveFirst(_, _)
\* list.remove(x): the list without the first occurrence of x
RemoveFirst(s, x) ==
    IF s = <<>> THEN <<>>
    ELSE IF Head(s) = x THEN Tail(s)
    ELSE <<Head(s)>> \o RemoveFirst(Tail(s), x)

(***************************************************************************)
(* The call stack.  Only the top frame runs: a signal handler runs to      *)
(* completion (or blocks) on the main thread before the interrupted frame  *)
(* resumes.                                                                *)
(***************************************************************************)
Depth == Len(frames)
Top == frames[Depth]
Frame(pc, ret, sig) ==
    [pc |-> pc, ret |-> ret, sig |-> sig,
     has_callbacks |-> FALSE, has_files |-> FALSE, has_directories |-> FALSE,
     todo |-> <<>>]
At(p) == proc = "running" /\ Top.pc = p
Goto(p) == frames' = [frames EXCEPT ![Depth].pc = p]
\* `with self._lock:` entered by the running frame; threading.Lock is not reentrant
Acquire(p, q) == /\ At(p)
                 /\ lock = 0
                 /\ lock' = Depth
                 /\ Goto(q)

(***************************************************************************)
(* core/cleanup.py and its callers: the main flow.                         *)
(***************************************************************************)
otherVars == <<pipeVars, verifyVars, showVars, extVars>>
trackerVars == <<temp_files, temp_directories, cleanup_callbacks>>
flagVars == <<cleanup_in_progress, signal_handlers_registered, atexit_registered,
              disposition>>
fsVars == <<disk, allocated>>
ownerVars == <<temp_tar_path, temp_dir>>
envVars == <<command, signals, callbacks_run>>

TarsAllocated == Cardinality({p \in allocated : p[1] = "tar"})

\* initialize_cleanup -> register_signal_handlers: installs _signal_handler for both
\* signals and the exit hook, once; when signal.signal raises ValueError (the
\* caller is not the main thread) or OSError the failure is logged and nothing
\* is installed
register_signal_handlers ==
    IF signal_handlers_registered
    THEN UNCHANGED flagVars
    ELSE \/ /\ disposition' = [s \in Signals |-> "handler"]
            /\ atexit_registered' = TRUE
            /\ signal_handlers_registered' = TRUE
            /\ UNCHANGED cleanup_in_progress
         \/ UNCHANGED flagVars

\* CompressionEngine.create_temp_tar up to tempfile.mkstemp inside
\* create_managed_temp_file: the file exists, the tracker does not know it yet
CreateTempTar ==
    /\ At("idle")
    /\ Depth = 1
    /\ TarsAllocated < MaxTempTars
    /\ register_signal_handlers
    /\ LET p == TarPath(TarsAllocated + 1) IN
         /\ disk' = disk \cup {p}
         /\ allocated' = allocated \cup {p}
         /\ frames' = [frames EXCEPT ![Depth].pc = "add_file_lock", ![Depth].todo = <<p>>]
    /\ UNCHANGED <<lock, trackerVars, ownerVars, envVars, proc, otherVars>>

AddTempFileLock ==
    /\ Acquire("add_file_lock", "add_file")
    /\ UNCHANGED <<trackerVars, flagVars, fsVars, ownerVars, envVars, proc, otherVars>>

\* add_temp_file under the lock, then create_temp_tar stores the path
add_temp_file ==
    /\ At("add_file")
    /\ LET p == Top.todo[1] IN
         /\ temp_files' = IF p \in SeqToSet(temp_files) THEN temp_files
                          ELSE Append(temp_files, p)
         /\ temp_tar_path' = p
    /\ lock' = 0
    /\ frames' = [frames EXCEPT ![Depth].pc = "work", ![Depth].todo = <<>>]
    /\ UNCHANGED <<temp_directories, cleanup_callbacks, flagVars, fsVars, temp_dir,
                   envVars, proc, otherVars>>

\* the stage that uses the temporary tar runs (tar, codec): its `finally` calls
\* cleanup_temp_tar; verify_single_archive skips that call when the stage raises
StageWork ==
    /\ At("work")
    /\ \/ Goto("ctt_check")
       \/ command = "verify" /\ Goto("idle")
    /\ UNCHANGED <<lock, trackerVars, flagVars, fsVars, ownerVars, envVars, proc,
                   otherVars>>

\* CompressionEngine.cleanup_temp_tar, called again by pack's finally
CleanupTempTarBegin ==
    /\ At("idle")
    /\ Depth = 1
    /\ temp_tar_path # NoPath
    /\ Goto("ctt_check")
    /\ UNCHANGED <<lock, trackerVars, flagVars, fsVars, ownerVars, envVars, proc,
                   otherVars>>

CleanupTempTarCheck ==
    /\ At("ctt_check")
    /\ IF temp_tar_path # NoPath /\ temp_tar_path \in disk
       THEN Goto("ctt_remove")
       ELSE Goto("idle")
    /\ UNCHANGED <<lock, trackerVars, flagVars, fsVars, ownerVars, envVars, proc,
                   otherVars>>

\* _force_remove_file(self.temp_tar_path)
CleanupTempTarRemove ==
    /\ At("ctt_remove")
    /\ disk' = disk \ {temp_tar_path}
    /\ Goto("ctt_unreg_lock")
    /\ UNCHANGED <<lock, trackerVars, flagVars, allocated, ownerVars, envVars, proc,
                   otherVars>>

RemoveTempFileLock ==
    /\ Acquire("ctt_unreg_lock", "ctt_unreg")
    /\ UNCHANGED <<trackerVars, flagVars, fsVars, ownerVars, envVars, proc, otherVars>>

\* remove_temp_file under the lock, then temp_tar_path = None
remove_temp_file ==
    /\ At("ctt_unreg")
    /\ temp_files' = RemoveFirst(temp_files, temp_tar_path)
    /\ temp_tar_path' = NoPath
    /\ lock' = 0
    /\ Goto("idle")
    /\ UNCHANGED <<temp_directories, cleanup_callbacks, flagVars, fsVars, temp_dir,
                   envVars, proc, otherVars>>

\* ArchiveAnalyzer.prepare_extraction_temp up to tempfile.mkdtemp inside
\* create_managed_temp_dir (pack of an archive input)
PrepareExtractionTemp ==
    /\ At("idle")
    /\ Depth = 1
    /\ command = "pack"
    /\ temp_dir = NoPath
    /\ DirPath \notin allocated
    /\ register_signal_handlers
    /\ disk' = disk \cup {DirPath}
    /\ allocated' = allocated \cup {DirPath}
    /\ Goto("add_dir_lock")
    /\ UNCHANGED <<lock, trackerVars, ownerVars, envVars, proc, otherVars>>

AddTempDirectoryLock ==
    /\ Acquire("add_dir_lock", "add_dir")
    /\ UNCHANGED <<trackerVars, flagVars, fsVars, ownerVars, envVars, proc, otherVars>>

\* add_temp_directory under the lock, then prepare_extraction_temp stores the path
add_temp_directory ==
    /\ At("add_dir")
    /\ temp_directories' = IF DirPath \in SeqToSet(temp_directories)
                           THEN temp_directories
                           ELSE Append(temp_directories, DirPath)
    /\ temp_dir' = DirPath
    /\ lock' = 0
    /\ Goto("idle")
    /\ UNCHANGED <<temp_files, cleanup_callbacks, flagVars, fsVars, temp_tar_path,
                   envVars, proc, otherVars>>

\* ArchiveAnalyzer.cleanup_temp: first looks at the flag under the lock
AnalyzerCleanupTempBegin ==
    /\ At("idle")
    /\ Depth = 1
    /\ command = "pack"
    /\ Goto("act_lock")
    /\ UNCHANGED <<lock, trackerVars, flagVars, fsVars, ownerVars, envVars, proc,
                   otherVars>>

AnalyzerCleanupTempLock ==
    /\ Acquire("act_lock", "act_check")
    /\ UNCHANGED <<trackerVars, flagVars, fsVars, ownerVars, envVars, proc, otherVars>>

AnalyzerCleanupTempCheck ==
    /\ At("act_check")
    /\ lock' = 0
    /\ IF cleanup_in_progress
       THEN Goto("idle")
       ELSE IF temp_dir # NoPath /\ temp_dir \in disk
            THEN Goto("act_remove")
            ELSE Goto("idle")
    /\ UNCHANGED <<trackerVars, flagVars, fsVars, ownerVars, envVars, proc, otherVars>>

\* _force_remove_directory(self.temp_dir)
AnalyzerCleanupTempRemove ==
    /\ At("act_remove")
    /\ disk' = disk \ {temp_dir}
    /\ Goto("act_unreg_lock")
    /\ UNCHANGED <<lock, trackerVars, flagVars, allocated, ownerVars, envVars, proc,
                   otherVars>>

RemoveTempDirectoryLock ==
    /\ Acquire("act_unreg_lock", "act_unreg")
    /\ UNCHANGED <<trackerVars, flagVars, fsVars, ownerVars, envVars, proc, otherVars>>

\* remove_temp_directory under the lock, then temp_dir = None
remove_temp_directory ==
    /\ At("act_unreg")
    /\ temp_directories' = RemoveFirst(temp_directories, temp_dir)
    /\ temp_dir' = NoPath
    /\ lock' = 0
    /\ Goto("idle")
    /\ UNCHANGED <<temp_files, cleanup_callbacks, flagVars, fsVars, temp_tar_path,
                   envVars, proc, otherVars>>

\* register_cleanup_callback -> add_cleanup_callback
AddCleanupCallbackLock ==
    /\ At("idle")
    /\ Depth = 1
    /\ Len(cleanup_callbacks) + callbacks_run < MaxCallbacks
    /\ lock = 0
    /\ lock' = Depth
    /\ Goto("add_cb")
    /\ UNCHANGED <<trackerVars, flagVars, fsVars, ownerVars, envVars, proc, otherVars>>

add_cleanup_callback ==
    /\ At("add_cb")
    /\ cleanup_callbacks' = Append(cleanup_callbacks, "callback")
    /\ lock' = 0
    /\ Goto("idle")
    /\ UNCHANGED <<temp_files, temp_directories, flagVars, fsVars, ownerVars, envVars,
                   proc, otherVars>>

(***************************************************************************)
(* core/cleanup.py: the teardown routine, run by whichever frame called it *)
(***************************************************************************)
Call(routine, ret) == frames' = [frames EXCEPT ![Depth].pc = routine, ![Depth].ret = ret]

AfterCallbacks(f) == IF f.has_files THEN "cf_lock"
                     ELSE IF f.has_directories THEN "cd_lock" ELSE f.ret
AfterFiles(f) == IF f.has_directories THEN "cd_lock" ELSE f.ret

\* _perform_cleanup: reads the three lists without the lock and returns when all are empty
PerformCleanupBegin ==
    /\ At("pc_begin")
    /\ LET f == [Top EXCEPT !.has_callbacks = cleanup_callbacks # <<>>,
                            !.has_files = temp_files # <<>>,
                            !.has_directories = temp_directories # <<>>]
           next == IF f.has_callbacks THEN "cb_lock" ELSE AfterCallbacks(f)
       IN frames' = [frames EXCEPT ![Depth] = [f EXCEPT !.pc = next]]
    /\ UNCHANGED <<lock, trackerVars, flagVars, fsVars, ownerVars, envVars, proc,
                   otherVars>>

CleanupCallbacksLock ==
    /\ Acquire("cb_lock", "cb_copy")
    /\ UNCHANGED <<trackerVars, flagVars, fsVars, ownerVars, envVars, proc, otherVars>>

\* cleanup_callbacks: copy and clear under the lock
CleanupCallbacksCopy ==
    /\ At("cb_copy")
    /\ frames' = [frames EXCEPT ![Depth].pc = "cb_run", ![Depth].todo = cleanup_callbacks]
    /\ cleanup_callbacks' = <<>>
    /\ lock' = 0
    /\ UNCHANGED <<temp_files, temp_directories, flagVars, fsVars, ownerVars, envVars,
                   proc, otherVars>>

\* cleanup_callbacks: run each callback, outside the lock
CleanupCallbacksRun ==
    /\ At("cb_run")
    /\ IF Top.todo = <<>>
       THEN /\ Goto(AfterCallbacks(Top))
            /\ UNCHANGED callbacks_run
       ELSE /\ frames' = [frames EXCEPT ![Depth].todo = Tail(Top.todo)]
            /\ callbacks_run' = callbacks_run + 1
    /\ UNCHANGED <<lock, trackerVars, flagVars, fsVars, ownerVars, command, signals,
                   proc, otherVars>>

CleanupTempFilesLock ==
    /\ Acquire("cf_lock", "cf_copy")
    /\ UNCHANGED <<trackerVars, flagVars, fsVars, ownerVars, envVars, proc, otherVars>>

\* cleanup_temp_files with the removals moved inside the `with` block
CleanupTempFilesCopyHoldingLock ==
    /\ At("cf_copy")
    /\ frames' = [frames EXCEPT ![Depth].pc = "cf_remove", ![Depth].todo = temp_files]
    /\ temp_files' = <<>>
    /\ UNCHANGED <<lock, temp_directories, cleanup_callbacks, flagVars, fsVars,
                   ownerVars, envVars, proc, otherVars>>

\* cleanup_temp_files: copy and clear under the lock
CleanupTempFilesCopy ==
    /\ At("cf_copy")
    /\ frames' = [frames EXCEPT ![Depth].pc = "cf_remove", ![Depth].todo = temp_files]
    /\ temp_files' = <<>>
    /\ lock' = 0
    /\ UNCHANGED <<temp_directories, cleanup_callbacks, flagVars, fsVars, ownerVars,
                   envVars, proc, otherVars>>

\* cleanup_temp_files: _force_remove_file on each, outside the lock
CleanupTempFilesRemove ==
    /\ At("cf_remove")
    /\ IF Top.todo = <<>>
       THEN /\ Goto(AfterFiles(Top))
            /\ UNCHANGED disk
       ELSE /\ frames' = [frames EXCEPT ![Depth].todo = Tail(Top.todo)]
            /\ disk' = disk \ {Head(Top.todo)}
    /\ UNCHANGED <<lock, trackerVars, flagVars, allocated, ownerVars, envVars, proc,
                   otherVars>>

CleanupTempDirectoriesLock ==
    /\ Acquire("cd_lock", "cd_copy")
    /\ UNCHANGED <<trackerVars, flagVars, fsVars, ownerVars, envVars, proc, otherVars>>

\* cleanup_temp_directories: copy and clear under the lock
CleanupTempDirectoriesCopy ==
    /\ At("cd_copy")
    /\ frames' = [frames EXCEPT ![Depth].pc = "cd_remove",
                                ![Depth].todo = temp_directories]
    /\ temp_directories' = <<>>
    /\ lock' = 0
    /\ UNCHANGED <<temp_files, cleanup_callbacks, flagVars, fsVars, ownerVars, envVars,
                   proc, otherVars>>

\* cleanup_temp_directories: _force_remove_directory on each, outside the lock
CleanupTempDirectoriesRemove ==
    /\ At("cd_remove")
    /\ IF Top.todo = <<>>
       THEN /\ Goto(Top.ret)
            /\ UNCHANGED disk
       ELSE /\ frames' = [frames EXCEPT ![Depth].todo = Tail(Top.todo)]
            /\ disk' = disk \ {Head(Top.todo)}
    /\ UNCHANGED <<lock, trackerVars, flagVars, allocated, ownerVars, envVars, proc,
                   otherVars>>

(***************************************************************************)
(* cleanup_all (manual_cleanup), called by the main flow.                  *)
(***************************************************************************)
CleanupAllBegin ==
    /\ At("idle")
    /\ Depth = 1
    /\ Goto("ca_lock")
    /\ UNCHANGED <<lock, trackerVars, flagVars, fsVars, ownerVars, envVars, proc,
                   otherVars>>

CleanupAllLock ==
    /\ Acquire("ca_lock", "ca_check")
    /\ UNCHANGED <<trackerVars, flagVars, fsVars, ownerVars, envVars, proc, otherVars>>

CleanupAllCheck ==
    /\ At("ca_check")
    /\ lock' = 0
    /\ IF ~signal_handlers_registered \/ cleanup_in_progress
       THEN /\ Goto("idle")
            /\ UNCHANGED cleanup_in_progress
       ELSE /\ cleanup_in_progress' = TRUE
            /\ Call("pc_begin", "ca_finally_lock")
    /\ UNCHANGED <<trackerVars, signal_handlers_registered, atexit_registered,
                   disposition, fsVars, ownerVars, envVars, proc, otherVars>>

CleanupAllFinallyLock ==
    /\ Acquire("ca_finally_lock", "ca_finally")
    /\ UNCHANGED <<trackerVars, flagVars, fsVars, ownerVars, envVars, proc, otherVars>>

CleanupAllFinally ==
    /\ At("ca_finally")
    /\ cleanup_in_progress' = FALSE
    /\ lock' = 0
    /\ Goto("idle")
    /\ UNCHANGED <<trackerVars, signal_handlers_registered, atexit_registered,
                   disposition, fsVars, ownerVars, envVars, proc, otherVars>>

(***************************************************************************)
(* The command returns or raises typer.Exit: the interpreter runs the exit *)
(* hooks and the process ends.                                             *)
(***************************************************************************)
ProcessExit ==
    /\ At("idle")
    /\ Depth = 1
    /\ IF atexit_registered
       THEN Goto("ax_lock") /\ UNCHANGED proc
       ELSE Goto("done") /\ proc' = "exited"
    /\ UNCHANGED <<lock, trackerVars, flagVars, fsVars, ownerVars, envVars, otherVars>>

AtexitCleanupLock ==
    /\ Acquire("ax_lock", "ax_check")
    /\ UNCHANGED <<trackerVars, flagVars, fsVars, ownerVars, envVars, proc, otherVars>>

\* _atexit_cleanup: returns when a teardown is in progress or nothing is registered
AtexitCleanupCheck ==
    /\ At("ax_check")
    /\ lock' = 0
    /\ IF \/ cleanup_in_progress
          \/ (temp_directories = <<>> /\ temp_files = <<>> /\ cleanup_callbacks = <<>>)
       THEN /\ Goto("done")
            /\ proc' = "exited"
            /\ UNCHANGED cleanup_in_progress
       ELSE /\ cleanup_in_progress' = TRUE
            /\ Call("pc_begin", "ax_finally_lock")
            /\ UNCHANGED proc
    /\ UNCHANGED <<trackerVars, signal_handlers_registered, atexit_registered,
                   disposition, fsVars, ownerVars, envVars, otherVars>>

AtexitCleanupFinallyLock ==
    /\ Acquire("ax_finally_lock", "ax_finally")
    /\ UNCHANGED <<trackerVars, flagVars, fsVars, ownerVars, envVars, proc, otherVars>>

AtexitCleanupFinally ==
    /\ At("ax_finally")
    /\ cleanup_in_progress' = FALSE
    /\ lock' = 0
    /\ Goto("done")
    /\ proc' = "exited"
    /\ UNCHANGED <<trackerVars, signal_handlers_registered, atexit_registered,
                   disposition, fsVars, ownerVars, envVars, otherVars>>

(***************************************************************************)
(* Signals.  Python runs the handler on the main thread, on top of         *)
(* whatever frame was executing, between two of its bytecodes.             *)
(***************************************************************************)
\* signal.signal's return value for each signal: SIGINT had default_int_handler (truthy),
\* SIGTERM had SIG_DFL, the integer 0 (falsy)
OriginalHandlerTruthy(sig) == sig = "SIGINT"

DeliverSignal(sig) ==
    /\ proc = "running"
    /\ signals < MaxSignals
    /\ disposition[sig] = "handler"
    /\ frames' = Append(frames, Frame("sig_lock", "sig_restore", sig))
    /\ signals' = signals + 1
    /\ UNCHANGED <<lock, trackerVars, flagVars, fsVars, ownerVars, command,
                   callbacks_run, proc, otherVars>>

\* a signal whose disposition is the original one ends the process
DefaultSignal(sig) ==
    /\ proc = "running"
    /\ signals < MaxSignals
    /\ disposition[sig] = "original"
    /\ proc' = "killed"
    /\ signals' = signals + 1
    /\ UNCHANGED <<frames, lock, trackerVars, flagVars, fsVars, ownerVars, command,
                   callbacks_run, otherVars>>

SignalHandlerLock ==
    /\ Acquire("sig_lock", "sig_check")
    /\ UNCHANGED <<trackerVars, flagVars, fsVars, ownerVars, envVars, proc, otherVars>>

\* SignalHandlerCheck without the look at _cleanup_in_progress
SignalHandlerCheckUnguarded ==
    /\ At("sig_check")
    /\ lock' = 0
    /\ cleanup_in_progress' = TRUE
    /\ Call("pc_begin", "sig_restore")
    /\ UNCHANGED <<trackerVars, signal_handlers_registered, atexit_registered,
                   disposition, fsVars, ownerVars, envVars, proc, otherVars>>

\* _signal_handler: return when a teardown is in progress, else mark it and tear down
SignalHandlerCheck ==
    /\ At("sig_check")
    /\ lock' = 0
    /\ IF cleanup_in_progress
       THEN /\ frames' = SubSeq(frames, 1, Depth - 1)
            /\ UNCHANGED cleanup_in_progress
       ELSE /\ cleanup_in_progress' = TRUE
            /\ Call("pc_begin", "sig_restore")
    /\ UNCHANGED <<trackerVars, signal_handlers_registered, atexit_registered,
                   disposition, fsVars, ownerVars, envVars, proc, otherVars>>

\* _signal_handler after the teardown: atexit.unregister, restore the original handler
SignalHandlerRestore ==
    /\ At("sig_restore")
    /\ atexit_registered' = FALSE
    /\ disposition' = IF OriginalHandlerTruthy(Top.sig)
                      THEN [disposition EXCEPT ![Top.sig] = "original"]
                      ELSE disposition
    /\ Goto("sig_exit")
    /\ UNCHANGED <<lock, trackerVars, cleanup_in_progress, signal_handlers_registered,
                   fsVars, ownerVars, envVars, proc, otherVars>>

\* os._exit(1)
SignalHandlerExit ==
    /\ At("sig_exit")
    /\ proc' = "killed"
    /\ UNCHANGED <<frames, lock, trackerVars, flagVars, fsVars, ownerVars, envVars,
                   otherVars>>

(***************************************************************************)
(* Values of the variables a specification does not use.                   *)
(***************************************************************************)
None == "None"
NoFile == <<"no file">>

CleanupIdle ==
    /\ frames = <<Frame("done", "none", "none")>>
    /\ lock = 0
    /\ cleanup_in_progress = FALSE
    /\ signal_handlers_registered = FALSE
    /\ atexit_registered = FALSE
    /\ temp_files = <<>>
    /\ temp_directories = <<>>
    /\ cleanup_callbacks = <<>>
    /\ callbacks_run = 0
    /\ disposition = [s \in Signals |-> "original"]
    /\ disk = {}
    /\ allocated = {}
    /\ temp_tar_path = NoPath
    /\ temp_dir = NoPath
    /\ command = "none"
    /\ signals = 0
    /\ proc = "none"

PipeIdle ==
    /\ tree = {}
    /\ tar = None
    /\ tar_again = None
    /\ params = None
    /\ chosen_window_log = None
    /\ zst = None
    /\ out_tar = None
    /\ extracted = None
    /\ pstage = "none"

VerifyIdle ==
    /\ artifact = <<>>
    /\ readable = TRUE
    /\ sidecar = None
    /\ corruptions = 0
    /\ hash_results = None
    /\ results = None
    /\ exit_code = None
    /\ vstage = "none"

ShowIdle ==
    /\ check_result = None
    /\ overall_status = None

PackIdle ==
    /\ input_path = None
    /\ options = None
    /\ output_dir = None
    /\ base_name = None
    /\ output_files = None
    /\ outputs = {}
    /\ failure = None
    /\ pack_exit = None
    /\ existing_before = {}
    /\ preserved = {}
    /\ kstage = "none"

\* a result dictionary that has not been produced yet
NoResult == [none |-> TRUE]

RepairIdle ==
    /\ verify_only = FALSE
    /\ environment = None
    /\ verification_result = NoResult
    /\ repair_result = NoResult
    /\ repair_calls = 0
    /\ diagnosis = None
    /\ repair_exit = None
    /\ rstage = "none"

HandlerIdle ==
    /\ handler = None
    /\ archive_entries = <<>>
    /\ materialized = {}
    /\ extract_ok = None
    /\ hstage = "none"

DetectIdle ==
    /\ file_path = None
    /\ detected_format = None
    /\ dstage = "none"

AnalyzeIdle ==
    /\ archive = None
    /\ entries = <<>>
    /\ structure_info = NoResult
    /\ grown_from = None
    /\ growths = 0
    /\ astage = "none"

SweepIdle ==
    /\ temp_base = {}
    /\ current_time = 0
    /\ swept = {}
    /\ sstage = "none"

WindowIdle ==
    /\ input_size = 0
    /\ host = None
    /\ optimal_window_log = 0
    /\ wstage = "none"

NestedIdle ==
    /\ nested_info = NoResult
    /\ root_state = NoResult
    /\ nested_result = <<>>
    /\ nstage = "none"

TarfailIdle ==
    /\ tar_source = NoResult
    /\ tar_writable = FALSE
    /\ tar_outcome = NoResult
    /\ tstage = "none"

RemoveIdle ==
    /\ remove_target = NoResult
    /\ remove_outcome = NoResult
    /\ mstage = "none"

ProcessIdle ==
    /\ process_input = NoResult
    /\ process_outcome = NoResult
    /\ ostage = "none"

ExtIdle == PackIdle /\ RepairIdle /\ HandlerIdle /\ DetectIdle /\ AnalyzeIdle /\ SweepIdle /\ WindowIdle /\ NestedIdle /\ TarfailIdle /\ RemoveIdle /\ ProcessIdle

(***************************************************************************)
(* Spec: one run of a command with the resource tracker, interrupted by    *)
(* signals at any step.                                                    *)
(***************************************************************************)
Init ==
    /\ frames = <<Frame("idle", "none", "none")>>
    /\ lock = 0
    /\ cleanup_in_progress = FALSE
    /\ signal_handlers_registered = FALSE
    /\ atexit_registered = FALSE
    /\ temp_files = <<>>
    /\ temp_directories = <<>>
    /\ cleanup_callbacks = <<>>
    /\ callbacks_run = 0
    /\ disposition = [s \in Signals |-> "original"]
    /\ disk = {}
    /\ allocated = {}
    /\ temp_tar_path = NoPath
    /\ temp_dir = NoPath
    /\ command \in Commands
    /\ signals = 0
    /\ proc = "running"
    /\ PipeIdle /\ VerifyIdle /\ ShowIdle /\ ExtIdle

\* the steps of the program itself
Step ==
    \/ CreateTempTar \/ AddTempFileLock \/ add_temp_file \/ StageWork
    \/ CleanupTempTarBegin \/ CleanupTempTarCheck \/ CleanupTempTarRemove
    \/ RemoveTempFileLock \/ remove_temp_file
    \/ PrepareExtractionTemp \/ AddTempDirectoryLock \/ add_temp_directory
    \/ AnalyzerCleanupTempBegin \/ AnalyzerCleanupTempLock \/ AnalyzerCleanupTempCheck
    \/ AnalyzerCleanupTempRemove \/ RemoveTempDirectoryLock \/ remove_temp_directory
    \/ AddCleanupCallbackLock \/ add_cleanup_callback
    \/ PerformCleanupBegin
    \/ CleanupCallbacksLock \/ CleanupCallbacksCopy \/ CleanupCallbacksRun
    \/ CleanupTempFilesLock \/ CleanupTempFilesCopy \/ CleanupTempFilesRemove
    \/ CleanupTempDirectoriesLock \/ CleanupTempDirectoriesCopy
    \/ CleanupTempDirectoriesRemove
    \/ CleanupAllBegin \/ CleanupAllLock \/ CleanupAllCheck
    \/ CleanupAllFinallyLock \/ CleanupAllFinally
    \/ ProcessExit \/ AtexitCleanupLock \/ AtexitCleanupCheck
    \/ AtexitCleanupFinallyLock \/ AtexitCleanupFinally
    \/ SignalHandlerLock \/ SignalHandlerCheck \/ SignalHandlerRestore
    \/ SignalHandlerExit

\* the operating system delivers a signal
Signal == \E sig \in Signals : DeliverSignal(sig) \/ DefaultSignal(sig)

Next == Step \/ Signal

Spec == Init /\ [][Next]_vars

\* the interpreter keeps executing the running frame whenever it can; signals
\* are not owed
FairSpec == Spec /\ WF_vars(Step)

(***************************************************************************)
(* Claims about the resource tracker (checked under Spec and FairSpec).    *)
(***************************************************************************)
Terminated == proc \in {"exited", "killed"}

\* C1: when the process has terminated, in whatever way, no temporary path
\* allocated during the run is left on the filesystem.
C1_NoTempLeftAtTermination == Terminated => allocated \cap disk = {}

\* pcs of a frame that is inside _perform_cleanup
TeardownPcs == {"pc_begin", "cb_lock", "cb_copy", "cb_run", "cf_lock", "cf_copy",
                "cf_remove", "cd_lock", "cd_copy", "cd_remove"}
FramesInTeardown == {i \in 1..Depth : frames[i].pc \in TeardownPcs}
SignalTeardownDone == \E i \in 2..Depth : frames[i].pc \in {"sig_restore", "sig_exit"}

\* C5: at most one frame is inside _perform_cleanup at any time, and once a
\* signal handler has finished its teardown the main flow (and so the exit hook)
\* never takes another step.
C5_AtMostOneTeardown ==
    /\ [](Cardinality(FramesInTeardown) <= 1)
    /\ [][SignalTeardownDone => frames'[1] = frames[1]]_vars

\* C5 witness: a signal arrived while the teardown of the exit hook or of
\* cleanup_all was running, and its handler found the flag set.
C5_Witness ==
    /\ Depth >= 2
    /\ Top.pc = "sig_check"
    /\ cleanup_in_progress
    /\ frames[1].pc \in TeardownPcs

\* a handler has just been entered while no teardown was running
HandlerEntered ==
    /\ proc = "running"
    /\ Depth = 2
    /\ Top.pc = "sig_lock"
    /\ ~cleanup_in_progress

\* C6: a signal delivered while no teardown is running always leads to the
\* handler terminating the process; it never blocks forever.  Stated for the
\* runs in which no further signal interrupts the handler.
C6_HandlerCompletes == HandlerEntered ~> (proc = "killed" \/ Depth > 2)

\* the paths the tracker holds
Registered == SeqToSet(temp_files) \cup SeqToSet(temp_directories)

\* the paths a teardown has taken off the lists and is about to remove
PendingRemoval ==
    UNION {SeqToSet(frames[i].todo) :
               i \in {j \in 1..Depth : frames[j].pc \in {"cf_remove", "cd_remove"}}}

\* C19: a temporary path is registered when it is allocated: whenever a signal
\* handler is running or the process has terminated, every path that was
\* allocated and is still on disk is in the tracker's lists.
C19_RegisteredAtAllocation ==
    (Depth >= 2 \/ Terminated) =>
        allocated \cap disk \subseteq (Registered \cup PendingRemoval)

\* pcs at which the running frame is inside a removal, a callback or a codec call
BlockingPcs == {"cb_run", "cf_remove", "cd_remove", "ctt_remove", "act_remove", "work"}

Ord(c) == CASE c = "." -> 46 [] c = "/" -> 47 [] c = "a" -> 97 [] c = "b" -> 98
            [] c = "r" -> 114

RECURSIVE Str(_)
\* str(relative_path): the components joined with "/"
Str(path) ==
    IF path = <<>> THEN <<>>
    ELSE IF Len(path) = 1 THEN path[1]
    ELSE path[1] \o <<"/">> \o Str(Tail(path))

RECURSIVE StrLess(_, _)
\* s < t for two str values
StrLess(s, t) ==
    IF t = <<>> THEN FALSE
    ELSE IF s = <<>> THEN TRUE
    ELSE IF Ord(Head(s)) # Ord(Head(t)) THEN Ord(Head(s)) < Ord(Head(t))
    ELSE StrLess(Tail(s), Tail(t))

RECURSIVE InsertByKey(_, _, _)
InsertByKey(sorted, x, key) ==
    IF sorted = <<>> THEN <<x>>
    ELSE IF StrLess(key[x], key[Head(sorted)]) THEN <<x>> \o sorted
    ELSE <<Head(sorted)>> \o InsertByKey(Tail(sorted), x, key)

RECURSIVE SortedByKey(_, _)
\* sorted(items, key=...) and list.sort(key=...): stable, ascending
SortedByKey(items, key) ==
    IF items = <<>> THEN <<>>
    ELSE InsertByKey(SortedByKey(SubSeq(items, 1, Len(items) - 1), key),
                     items[Len(items)], key)

\* `".." in name`
ContainsDotDot(name) == \E i \in 1..(Len(name) - 1) : name[i] = "." /\ name[i + 1] = "."
\* name.startswith("/")
StartsWithSlash(name) == name # <<>> /\ name[1] = "/"

RECURSIVE SplitPath(_, _)
\* the components of a member name, as the filesystem resolves output_dir / name
SplitPath(name, acc) ==
    IF name = <<>> THEN (IF acc = <<>> THEN <<>> ELSE <<acc>>)
    ELSE IF Head(name) = "/"
         THEN (IF acc = <<>> THEN <<>> ELSE <<acc>>) \o SplitPath(Tail(name), <<>>)
         ELSE SplitPath(Tail(name), Append(acc, Head(name)))

(***************************************************************************)
(* The directory trees the pipeline is run on.                             *)
(***************************************************************************)
RootName == <<"r">>
DirCandidates == {<< <<"a">> >>}
FileCandidates == {<< <<"a">>, <<"b">> >>, << <<"a", ".", "b">> >>,
                   << <<"a", ".", ".", "b">> >>}
AllEntries ==
    {[path |-> p, kind |-> "dir", content |-> 0] : p \in DirCandidates}
    \cup {[path |-> p, kind |-> "file", content |-> c] :
              p \in FileCandidates, c \in 0..MaxContent}
\* sets of entries with distinct paths in which every entry's parent is a directory
Trees ==
    {t \in SUBSET AllEntries :
        /\ \A e, f \in t : e.path = f.path => e = f
        /\ \A e \in t : Len(e.path) > 1 =>
               \E d \in t : d.kind = "dir" /\ d.path = SubSeq(e.path, 1, Len(e.path) - 1)}
\* the orders in which the filesystem may enumerate the entries of a tree
Enumerations(t) ==
    {o \in [1..Cardinality(t) -> t] : \A i, j \in 1..Cardinality(t) : o[i] = o[j] => i = j}
\* the invoking account and the files' modification time
Accounts == {[uid |-> 0, name |-> "root"], [uid |-> 1000, name |-> "user"]}
Mtimes == {0, 1}

(***************************************************************************)
(* CompressionEngine._get_sorted_file_list and create_deterministic_tar    *)
(***************************************************************************)
\* current_dir.iterdir(): the children of dir, in the filesystem's order
iterdir(t, order, dir) ==
    SelectSeq(order, LAMBDA e : /\ Len(e.path) = Len(dir) + 1
                                /\ SubSeq(e.path, 1, Len(dir)) = dir)

NameKey(t) == [e \in t |-> e.path[Len(e.path)]]
\* item.relative_to(relative_base) of the absolute path <root>/<path>, then str()
RelativeTo(absolute, base) == SubSeq(absolute, Len(base) + 1, Len(absolute))
StrKey(t) == [e \in t |-> Str(RelativeTo(<<RootName>> \o e.path, <<RootName>>))]

RECURSIVE add_files_recursively(_, _, _)
RECURSIVE AddItems(_, _, _)
\* the loop over the sorted items of one directory
AddItems(t, order, items) ==
    IF items = <<>> THEN <<>>
    ELSE <<Head(items)>>
         \o (IF Head(items).kind = "dir"
             THEN add_files_recursively(t, order, Head(items).path)
             ELSE <<>>)
         \o AddItems(t, order, Tail(items))
add_files_recursively(t, order, current_dir) ==
    AddItems(t, order, SortedByKey(iterdir(t, order, current_dir), NameKey(t)))

\* the list with neither sort: entries in the order the filesystem enumerates them
FileListInEnumerationOrder(t, order) == order

get_sorted_file_list(t, order) ==
    SortedByKey(add_files_recursively(t, order, <<>>), StrKey(t))

\* tar.gettarinfo(absolute_path, str(relative_path)): metadata as found on disk
gettarinfo(e, t, account, mtime) ==
    [name |-> StrKey(t)[e], kind |-> e.kind, content |-> e.content,
     uid |-> account.uid, gid |-> account.uid,
     uname |-> account.name, gname |-> account.name, mtime |-> mtime]

\* the five assignments that make an entry deterministic
DeterministicProperties(ti) ==
    [ti EXCEPT !.uid = 0, !.gid = 0, !.uname = "root", !.gname = "root", !.mtime = 0]

create_deterministic_tar(t, order, account, mtime) ==
    LET file_list == get_sorted_file_list(t, order)
    IN [i \in 1..Len(file_list) |->
           DeterministicProperties(gettarinfo(file_list[i], t, account, mtime))]

(***************************************************************************)
(* CompressionEngine: window log, compression, decompression, extraction   *)
(***************************************************************************)
Platforms == [is_64bit : BOOLEAN, is_windows : BOOLEAN]
Levels == 1..22
\* input sizes in bytes, on both sides of every threshold
FileSizes == {0, 10240, 2 * 1024 * 1024 - 1, 2 * 1024 * 1024,
              20 * 1024 * 1024 - 1, 20 * 1024 * 1024,
              200 * 1024 * 1024 - 1, 200 * 1024 * 1024}

\* tar_path.stat().st_size: a tar holding no file data is one 10240-byte record,
\* one holding files is as large as their data makes it
TarSizes(t) == IF \E e \in t : e.kind = "file" THEN FileSizes \ {0} ELSE {10240}

\* _calculate_optimal_window_log with the thresholds taken inclusively
CalculateWindowLogInclusive(file_size, platform) ==
    LET max_window_log ==
            IF platform.is_64bit
            THEN (IF platform.is_windows THEN 30 ELSE 31)
            ELSE (IF platform.is_windows THEN 29 ELSE 30)
    IN IF file_size <= 2 * 1024 * 1024 THEN 20
       ELSE IF file_size <= 20 * 1024 * 1024 THEN 24
       ELSE IF file_size <= 200 * 1024 * 1024 THEN 27
       ELSE max_window_log

calculate_optimal_window_log(file_size, platform) ==
    LET max_window_log ==
            IF platform.is_64bit
            THEN (IF platform.is_windows THEN 30 ELSE 31)
            ELSE (IF platform.is_windows THEN 29 ELSE 30)
    IN IF file_size < 2 * 1024 * 1024 THEN 20
       ELSE IF file_size < 20 * 1024 * 1024 THEN 24
       ELSE IF file_size < 200 * 1024 * 1024 THEN 27
       ELSE max_window_log

\* zstd.ZstdCompressor(level=level): with no window_log given the codec takes the
\* window log of its default parameter table for an input of unknown size
LevelWindowLog(level) ==
    IF level = 1 THEN 19
    ELSE IF level = 2 THEN 20
    ELSE IF level <= 8 THEN 21
    ELSE IF level <= 16 THEN 22
    ELSE IF level <= 19 THEN 23
    ELSE IF level = 20 THEN 25
    ELSE IF level = 21 THEN 26
    ELSE 27

\* the window log of the frame compress_with_zstd writes: window_log reaches the
\* codec only in the branch `long_mode and level >= 10`
FrameWindowLog(level, long_mode, window_log) ==
    IF long_mode /\ level >= 10 THEN window_log ELSE LevelWindowLog(level)

\* the artifact: the frame header's window descriptor (exponent = window log - 10,
\* mantissa 0), the compressed tar and whether the blocks and the content
\* checksum (write_checksum=True) still agree
compress_with_zstd(tar_entries, level, long_mode, window_log) ==
    [exponent |-> FrameWindowLog(level, long_mode, window_log) - 10,
     mantissa |-> 0,
     payload |-> tar_entries,
     intact |-> TRUE]

\* get_zstd_window_log: int(math.log2(frame_params.window_size)), where
\* window_size = 2^(10 + exponent) * (1 + mantissa / 8) and mantissa < 8
get_zstd_window_log(z) == 10 + z.exponent

\* zstd.ZstdDecompressor() is built without max_window_size, so the codec's default
\* limit applies: a frame whose window is above 2^27 is refused by copy_stream, as
\* is one whose data no longer matches its checksum
decompress_with_zstd(z) ==
    IF \/ get_zstd_window_log(z) > 27
       \/ (get_zstd_window_log(z) = 27 /\ z.mantissa > 0)
       \/ ~z.intact
    THEN [ok |-> FALSE, tar |-> None]
    ELSE [ok |-> TRUE, tar |-> z.payload]

\* the members extract_tar_archive hands to extractall
SafeMember(m) == ~(StartsWithSlash(m.name) \/ ContainsDotDot(m.name))

\* extract_tar_archive: what exists under output_dir afterwards
extract_tar_archive(tar_entries) ==
    {[path |-> SplitPath(tar_entries[i].name, <<>>), kind |-> tar_entries[i].kind,
      content |-> tar_entries[i].content] :
         i \in {j \in 1..Len(tar_entries) : SafeMember(tar_entries[j])}}

(***************************************************************************)
(* PipelineSpec: serialize a tree (twice), compress, decompress, extract.  *)
(***************************************************************************)
PipelineInit ==
    /\ tree \in Trees
    /\ tar = None
    /\ tar_again = None
    /\ params = None
    /\ chosen_window_log = None
    /\ zst = None
    /\ out_tar = None
    /\ extracted = None
    /\ pstage = "start"
    /\ CleanupIdle /\ VerifyIdle /\ ShowIdle /\ ExtIdle

pipeOthers == <<cleanupVars, verifyVars, showVars, extVars>>

CreateDeterministicTar ==
    /\ pstage = "start"
    /\ \E order \in Enumerations(tree), account \in Accounts, mtime \in Mtimes :
           tar' = create_deterministic_tar(tree, order, account, mtime)
    /\ pstage' = "tarred"
    /\ UNCHANGED <<tree, tar_again, params, chosen_window_log, zst, out_tar, extracted,
                   pipeOthers>>

\* a second run over the same tree, by another account, another enumeration order
CreateDeterministicTarAgain ==
    /\ pstage = "tarred"
    /\ \E order \in Enumerations(tree), account \in Accounts, mtime \in Mtimes :
           tar_again' = create_deterministic_tar(tree, order, account, mtime)
    /\ pstage' = "tarred_again"
    /\ UNCHANGED <<tree, tar, params, chosen_window_log, zst, out_tar, extracted,
                   pipeOthers>>

CompressWithZstd ==
    /\ pstage = "tarred"
    /\ \E level \in Levels, long_mode \in BOOLEAN, file_size \in TarSizes(tree),
          platform \in Platforms :
           LET window_log == calculate_optimal_window_log(file_size, platform) IN
             /\ params' = [level |-> level, long_mode |-> long_mode,
                           file_size |-> file_size, platform |-> platform]
             /\ chosen_window_log' = window_log
             /\ zst' = compress_with_zstd(tar, level, long_mode, window_log)
    /\ pstage' = "compressed"
    /\ UNCHANGED <<tree, tar, tar_again, out_tar, extracted, pipeOthers>>

DecompressWithZstd ==
    /\ pstage = "compressed"
    /\ LET r == decompress_with_zstd(zst) IN
         /\ out_tar' = r.tar
         /\ pstage' = IF r.ok THEN "decompressed" ELSE "failed"
    /\ UNCHANGED <<tree, tar, tar_again, params, chosen_window_log, zst, extracted,
                   pipeOthers>>

ExtractTarArchive ==
    /\ pstage = "decompressed"
    /\ extracted' = extract_tar_archive(out_tar)
    /\ pstage' = "extracted"
    /\ UNCHANGED <<tree, tar, tar_again, params, chosen_window_log, zst, out_tar,
                   pipeOthers>>

PipelineNext ==
    \/ CreateDeterministicTar
    \/ CreateDeterministicTarAgain
    \/ CompressWithZstd
    \/ DecompressWithZstd
    \/ ExtractTarArchive

PipelineSpec == PipelineInit /\ [][PipelineNext]_vars

(***************************************************************************)
(* Claims about the pipeline (checked under PipelineSpec).                 *)
(***************************************************************************)
\* C2: the four stages run in sequence always succeed and reproduce exactly
\* the paths, kinds and contents of the source tree.
C2_RoundTrip ==
    pstage \in {"failed", "extracted"} => (pstage = "extracted" /\ extracted = tree)

NormalizedEntry(m) ==
    /\ m.uid = 0 /\ m.gid = 0 /\ m.uname = "root" /\ m.gname = "root" /\ m.mtime = 0
    /\ SplitPath(m.name, <<>>) # <<>>
    /\ SplitPath(m.name, <<>>)[1] # RootName
    /\ ~StartsWithSlash(m.name)

C7_WindowLogFidelity ==
    pstage = "compressed" => get_zstd_window_log(zst) = chosen_window_log

(***************************************************************************)
(* core/hash.py: digests and sidecar files.  Text is a sequence of         *)
(* characters, a file a sequence of bytes.                                 *)
(***************************************************************************)
Bytes == {0, 1}
Algorithms == {"sha256", "blake3"}
Whitespace == {" ", "\n"}
\* Python's True / False / None as the values of a check
TriState == {"True", "False", "None"}
PyBool(b) == IF b THEN "True" ELSE "False"
\* what generate_sha256 / generate_blake3 return when the file cannot be read
NoHash == <<"None">>
\* first byte of a zstd frame
ZstdMagic == 40
\* archive_path.name
FileName == <<"x">>

LowerChar(c) ==
    CASE c = "C" -> "c" [] c = "D" -> "d" [] c = "E" -> "e" [] c = "F" -> "f"
      [] c = "G" -> "g" [] c = "T" -> "t" [] c = "Z" -> "z"
      [] OTHER -> c
UpperChar(c) ==
    CASE c = "c" -> "C" [] c = "d" -> "D" [] c = "e" -> "E" [] c = "f" -> "F"
      [] c = "g" -> "G" [] c = "t" -> "T" [] c = "z" -> "Z"
      [] OTHER -> c
\* str.lower() and str.upper()
lower(s) == [i \in 1..Len(s) |-> LowerChar(s[i])]
upper(s) == [i \in 1..Len(s) |-> UpperChar(s[i])]

HexDigit(b) ==
    CASE b = 0 -> "0" [] b = 1 -> "1" [] b = ZstdMagic -> "e" [] OTHER -> "f"
\* hexdigest(): lowercase hex text.  SHA-256 and BLAKE3 are taken to be free of
\* collisions on the files of the model: the text determines the bytes, and the
\* two algorithms never give the same text.
hexdigest(alg, file) ==
    <<IF alg = "sha256" THEN "c" ELSE "d">> \o [i \in 1..Len(file) |-> HexDigit(file[i])]

\* generate_sha256 / generate_blake3: None when reading raises
generate_sha256(file, can_read) == IF can_read THEN hexdigest("sha256", file) ELSE NoHash
generate_blake3(file, can_read) == IF can_read THEN hexdigest("blake3", file) ELSE NoHash
generate_all_hashes(file, can_read) ==
    [alg \in Algorithms |-> IF alg = "sha256" THEN generate_sha256(file, can_read)
                            ELSE generate_blake3(file, can_read)]

\* save_hash_file: f"{hash_value}  {original_filename}\n"
save_hash_file(hash_value, original_filename) ==
    hash_value \o <<" ", " ">> \o original_filename \o <<"\n">>

\* generate_and_save_hashes: the sidecars afterwards (nothing is written when a
\* digest could not be generated)
generate_and_save_hashes(file, can_read, sc) ==
    LET hashes == generate_all_hashes(file, can_read)
    IN IF hashes["sha256"] = NoHash \/ hashes["blake3"] = NoHash THEN sc
       ELSE [alg \in Algorithms |-> save_hash_file(hashes[alg], FileName)]

RECURSIVE readline(_)
\* f.readline(): up to and including the first newline
readline(content) ==
    IF content = <<>> THEN <<>>
    ELSE IF Head(content) = "\n" THEN <<"\n">>
    ELSE <<Head(content)>> \o readline(Tail(content))

RECURSIVE lstrip(_)
lstrip(s) == IF s # <<>> /\ Head(s) \in Whitespace THEN lstrip(Tail(s)) ELSE s
RECURSIVE rstrip(_)
rstrip(s) ==
    IF s # <<>> /\ s[Len(s)] \in Whitespace THEN rstrip(SubSeq(s, 1, Len(s) - 1)) ELSE s
\* str.strip()
strip(s) == rstrip(lstrip(s))

RECURSIVE TakeToken(_)
TakeToken(s) ==
    IF s = <<>> \/ Head(s) \in Whitespace THEN <<>>
    ELSE <<Head(s)>> \o TakeToken(Tail(s))
\* s.split()[0]: the first run of characters that are not whitespace
FirstToken(s) == TakeToken(lstrip(s))

\* `"  " in line`
ContainsDoubleSpace(line) ==
    \E i \in 1..(Len(line) - 1) : line[i] = " " /\ line[i + 1] = " "
\* line.split("  ", 1)[0]
BeforeDoubleSpace(line) ==
    LET i == CHOOSE k \in 1..(Len(line) - 1) :
                 /\ line[k] = " " /\ line[k + 1] = " "
                 /\ \A j \in 1..(k - 1) : ~(line[j] = " " /\ line[j + 1] = " ")
    IN SubSeq(line, 1, i - 1)

\* verify_hash_file with the comparison done on the texts as stored
HashesEqualCaseSensitive(actual_hash, expected_hash) == actual_hash = expected_hash

\* actual_hash.lower() == expected_hash.lower()
HashesEqual(actual_hash, expected_hash) == lower(actual_hash) = lower(expected_hash)

verify_hash_file(content, suffix, file, can_read) ==
    LET line == strip(readline(content))
        expected_hash == IF ContainsDoubleSpace(line) THEN BeforeDoubleSpace(line)
                         ELSE IF line # <<>> THEN FirstToken(line) ELSE <<>>
        actual_hash == IF suffix = ".sha256" THEN generate_sha256(file, can_read)
                       ELSE generate_blake3(file, can_read)
    IN IF expected_hash = <<>> THEN FALSE
       ELSE IF suffix \notin {".sha256", ".blake3"} THEN FALSE
       ELSE IF actual_hash = NoHash THEN FALSE
       ELSE HashesEqual(actual_hash, expected_hash)

Suffix(alg) == IF alg = "sha256" THEN ".sha256" ELSE ".blake3"

\* verify_all_hashes: a sidecar that does not exist gives False
verify_all_hashes(file, can_read, sc) ==
    [alg \in Algorithms |->
        IF sc[alg] # NoFile
        THEN PyBool(verify_hash_file(sc[alg], Suffix(alg), file, can_read))
        ELSE "False"]

(***************************************************************************)
(* The stored artifact as bytes, and commands/verify.py.                   *)
(***************************************************************************)
RECURSIVE Sum(_)
Sum(bytes) == IF bytes = <<>> THEN 0 ELSE Head(bytes) + Sum(Tail(bytes))
\* the content checksum the codec appends to the frame (write_checksum=True)
Checksum(payload) == Sum(payload) % 2

\* the bytes of a frame: magic, window descriptor, data, content checksum
FrameBytes(z) ==
    <<ZstdMagic, z.exponent * 8 + z.mantissa>> \o z.payload \o <<Checksum(z.payload)>>
\* the frame the decoder sees in a file
ParseFrame(file) ==
    LET payload == SubSeq(file, 3, Len(file) - 1)
    IN [exponent |-> file[2] \div 8,
        mantissa |-> file[2] % 8,
        payload |-> payload,
        intact |-> file[Len(file)] = Checksum(payload)]

Payloads == UNION {[1..n -> Bytes] : n \in 1..MaxPayload}
\* what pack leaves behind: compression at the default level 19 with long mode
ProducedArtifacts ==
    {FrameBytes(compress_with_zstd(p, 19, TRUE,
                    calculate_optimal_window_log(Len(p), [is_64bit |-> TRUE,
                                                          is_windows |-> FALSE]))) :
        p \in Payloads}

\* zstd.get_frame_parameters(header_bytes) succeeds
get_frame_parameters(header_bytes) ==
    Len(header_bytes) >= 2 /\ header_bytes[1] = ZstdMagic

\* verify_zstd_integrity: only the first 18 bytes are read and only the frame
\* header is parsed
verify_zstd_integrity(file, can_read) ==
    /\ can_read
    /\ get_frame_parameters(SubSeq(file, 1, IF Len(file) < 18 THEN Len(file) ELSE 18))

\* verify_tar_integrity: tarfile.open and getmembers succeed
verify_tar_integrity(tar_bytes) == tar_bytes # <<>>

\* step 3 of verify_single_archive: decompress to a temporary tar, then read it
TarIntegrity(file, can_read) ==
    IF ~can_read \/ ~get_frame_parameters(file) THEN FALSE
    ELSE LET d == decompress_with_zstd(ParseFrame(file))
         IN IF d.ok THEN verify_tar_integrity(d.tar) ELSE FALSE

Checks == {"zstd_integrity", "sha256_hash", "blake3_hash", "tar_integrity"}

verify_single_archive(file, can_read, sc) ==
    LET hr == verify_all_hashes(file, can_read, sc)
    IN [c \in Checks |->
           CASE c = "zstd_integrity" -> PyBool(verify_zstd_integrity(file, can_read))
             [] c = "sha256_hash" -> hr["sha256"]
             [] c = "blake3_hash" -> hr["blake3"]
             [] c = "tar_integrity" -> PyBool(TarIntegrity(file, can_read))]

\* show_verification_results: the overall status of one archive
show_verification_results(result) ==
    LET passed_checks == {c \in DOMAIN result : result[c] = "True"}
        failed_checks == {c \in DOMAIN result : result[c] = "False"}
        missing_checks == {c \in DOMAIN result : result[c] \notin {"True", "False"}}
    IN IF failed_checks # {} THEN "FAILED"
       ELSE IF missing_checks # {} /\ passed_checks = {} THEN "INCOMPLETE"
       ELSE IF passed_checks # {} THEN "PASSED"
       ELSE "UNKNOWN"

\* the exit status of verify: 1 when any check of the archive is False
ExitCode(result) == IF \E c \in DOMAIN result : result[c] = "False" THEN 1 ELSE 0

\* sidecar contents other tools leave: the manifest line, the same with an
\* uppercase digest, a single separating space, the bare digest
SidecarForms(h) ==
    {save_hash_file(h, FileName),
     save_hash_file(upper(h), FileName),
     h \o <<" ">> \o FileName \o <<"\n">>,
     h \o <<"\n">>}
OtherAlgorithm(alg) == IF alg = "sha256" THEN "blake3" ELSE "sha256"
\* what a sidecar of the file may hold: any form of its digest, the digest of
\* the other algorithm, or an empty line
ForeignSidecars(alg, file) ==
    SidecarForms(hexdigest(alg, file))
    \cup {save_hash_file(hexdigest(OtherAlgorithm(alg), file), FileName), <<"\n">>}

(***************************************************************************)
(* VerifySpec: an artifact is stored, sidecars are written or removed,     *)
(* bytes of the artifact change, and verify runs.                          *)
(***************************************************************************)
VerifyInit ==
    /\ artifact \in ProducedArtifacts
    /\ readable \in BOOLEAN
    /\ sidecar = [alg \in Algorithms |-> NoFile]
    /\ corruptions = 0
    /\ hash_results = None
    /\ results = None
    /\ exit_code = None
    /\ vstage = "stored"
    /\ CleanupIdle /\ PipeIdle /\ ShowIdle /\ ExtIdle

verifyOthers == <<cleanupVars, pipeVars, extVars>>

\* pack: hash_generator.generate_and_save_hashes(archive_path)
GenerateAndSaveHashes ==
    /\ vstage = "stored" /\ corruptions = 0
    /\ sidecar' = generate_and_save_hashes(artifact, readable, sidecar)
    /\ UNCHANGED <<artifact, readable, corruptions, hash_results, results, exit_code,
                   vstage, showVars, verifyOthers>>

\* a sidecar written by another tool
WriteSidecar(alg) ==
    /\ vstage = "stored" /\ corruptions = 0
    /\ \E content \in ForeignSidecars(alg, artifact) :
          sidecar' = [sidecar EXCEPT ![alg] = content]
    /\ UNCHANGED <<artifact, readable, corruptions, hash_results, results, exit_code,
                   vstage, showVars, verifyOthers>>

\* a sidecar is lost
DeleteSidecar(alg) ==
    /\ vstage = "stored" /\ corruptions = 0
    /\ sidecar[alg] # NoFile
    /\ sidecar' = [sidecar EXCEPT ![alg] = NoFile]
    /\ UNCHANGED <<artifact, readable, corruptions, hash_results, results, exit_code,
                   vstage, showVars, verifyOthers>>

\* one byte of the stored artifact changes
CorruptByte ==
    /\ vstage = "stored" /\ corruptions < MaxCorruptions
    /\ \E i \in 1..Len(artifact) : \E b \in Bytes \ {artifact[i]} :
          artifact' = [artifact EXCEPT ![i] = b]
    /\ corruptions' = corruptions + 1
    /\ UNCHANGED <<readable, sidecar, hash_results, results, exit_code, vstage,
                   showVars, verifyOthers>>

\* verify (single file): verify_single_archive, the results table, the exit status
VerifyMain ==
    /\ vstage = "stored"
    /\ hash_results' = verify_all_hashes(artifact, readable, sidecar)
    /\ results' = verify_single_archive(artifact, readable, sidecar)
    /\ check_result' = results'
    /\ overall_status' = show_verification_results(results')
    /\ exit_code' = ExitCode(results')
    /\ vstage' = "verified"
    /\ UNCHANGED <<artifact, readable, sidecar, corruptions, verifyOthers>>

VerifyNext ==
    \/ GenerateAndSaveHashes
    \/ \E alg \in Algorithms : WriteSidecar(alg)
    \/ \E alg \in Algorithms : DeleteSidecar(alg)
    \/ CorruptByte
    \/ VerifyMain

VerifySpec == VerifyInit /\ [][VerifyNext]_vars

(***************************************************************************)
(* ShowSpec: show_verification_results on every combination of results.    *)
(***************************************************************************)
ShowInit ==
    /\ check_result \in [Checks -> TriState]
    /\ overall_status = None
    /\ CleanupIdle /\ PipeIdle /\ VerifyIdle /\ ExtIdle

ShowVerificationResults ==
    /\ overall_status = None
    /\ overall_status' = show_verification_results(check_result)
    /\ UNCHANGED <<check_result, cleanupVars, pipeVars, verifyVars, extVars>>

ShowNext == ShowVerificationResults

ShowSpec == ShowInit /\ [][ShowNext]_vars

(***************************************************************************)
(* Claims about digests and verification (checked under VerifySpec).       *)
(***************************************************************************)
\* the live file's digest equals, case-insensitively, the first token of the sidecar
DigestsMatch(alg) ==
    /\ sidecar[alg] # NoFile
    /\ readable
    /\ lower(hexdigest(alg, artifact)) = lower(FirstToken(sidecar[alg]))

SavedSidecars(a0) == [alg \in Algorithms |-> save_hash_file(hexdigest(alg, a0), FileName)]
OneByteApart(a, b) ==
    Len(a) = Len(b) /\ Cardinality({i \in 1..Len(a) : a[i] # b[i]}) = 1

C8_CorruptionDetected ==
    (vstage = "verified" /\ readable) =>
        \A a0 \in ProducedArtifacts :
            (/\ sidecar = SavedSidecars(a0)
             /\ OneByteApart(artifact, a0)
             /\ \E i \in 3..(Len(a0) - 1) : artifact[i] # a0[i])
            => /\ results["zstd_integrity"] = "False"
               /\ results["sha256_hash"] = "False"
               /\ results["blake3_hash"] = "False"

ResultKey(alg) == IF alg = "sha256" THEN "sha256_hash" ELSE "blake3_hash"

\* C9: a missing sidecar gives that check the third outcome (neither passed nor
\* failed), and when no other check failed the verify command does not fail.
C9_MissingSidecarIndeterminate ==
    vstage = "verified" =>
        \A alg \in Algorithms :
            sidecar[alg] = NoFile =>
                /\ hash_results[alg] \notin {"True", "False"}
                /\ results[ResultKey(alg)] = "None"
                /\ (\A c \in Checks \ {ResultKey(alg)} : results[c] # "False")
                       => exit_code = 0

(***************************************************************************)
(* Claim about the aggregate status (checked under ShowSpec).              *)
(***************************************************************************)
\* C10: the aggregate is FAILED iff some check failed, INCOMPLETE iff none
\* failed and some check could not run, PASSED iff all four passed.
C10_AggregateStatus ==
    overall_status # None =>
        /\ overall_status = "FAILED" <=> (\E c \in Checks : check_result[c] = "False")
        /\ overall_status = "INCOMPLETE" <=>
               /\ \A c \in Checks : check_result[c] # "False"
               /\ \E c \in Checks : check_result[c] = "None"
        /\ overall_status = "PASSED" <=> (\A c \in Checks : check_result[c] = "True")

(***************************************************************************)
(* core/organizer.py: FileOrganizer.  Names are sequences of characters.   *)
(***************************************************************************)
EndsWith(s, suffix) ==
    Len(s) >= Len(suffix) /\ SubSeq(s, Len(s) - Len(suffix) + 1, Len(s)) = suffix

\* the position of the last "." of a name, 0 when it has none
LastDot(name) ==
    IF \E i \in 1..Len(name) : name[i] = "."
    THEN CHOOSE i \in 1..Len(name) :
             name[i] = "." /\ \A j \in (i + 1)..Len(name) : name[j] # "."
    ELSE 0

\* Path.stem: the name without its last suffix
Stem(name) ==
    IF 1 < LastDot(name) /\ LastDot(name) < Len(name)
    THEN SubSeq(name, 1, LastDot(name) - 1)
    ELSE name

\* the list setup_output_path walks, in its order
ArchiveExtensions ==
    << <<".", "7", "z">>, <<".", "z", "i", "p">>, <<".", "r", "a", "r">>,
       <<".", "t", "a", "r">>, <<".", "g", "z">>, <<".", "b", "z", "2">>,
       <<".", "x", "z">> >>

\* ext.replace(".", "")
WithoutDots(ext) == SelectSeq(ext, LAMBDA c : c # ".")

RECURSIVE StripArchiveExtension(_, _)
\* the loop over the extensions, left at the first match:
\* base_name[: -len(ext) + 1] when base_name.endswith(ext.replace(".", ""))
StripArchiveExtension(name, exts) ==
    IF exts = <<>> THEN name
    ELSE IF EndsWith(name, WithoutDots(Head(exts)))
         THEN SubSeq(name, 1, Len(name) - (Len(Head(exts)) - 1))
         ELSE StripArchiveExtension(name, Tail(exts))

\* the base name setup_output_path computes
BaseName(inp) ==
    IF inp.is_file THEN StripArchiveExtension(Stem(inp.name), ArchiveExtensions)
    ELSE inp.name

\* a directory: a base directory ("cwd" or "D") and a subdirectory name below
\* it, <<>> for the base directory itself
Dir(base, sub) == [base |-> base, sub |-> sub]

OutputKinds == {"archive", "sha256", "blake3", "par2"}
OutputSuffix(kind) ==
    CASE kind = "archive" -> <<".", "t", "a", "r", ".", "z", "s", "t">>
      [] kind = "sha256" -> <<".", "t", "a", "r", ".", "z", "s", "t">> \o <<".", "s", "h", "a", "2", "5", "6">>
      [] kind = "blake3" -> <<".", "t", "a", "r", ".", "z", "s", "t">> \o <<".", "b", "l", "a", "k", "e", "3">>
      [] kind = "par2" -> <<".", "t", "a", "r", ".", "z", "s", "t">> \o <<".", "p", "a", "r", "2">>

\* setup_output_path: the output directory
OutputPath(flat_mode, out_dir, base) ==
    IF flat_mode THEN Dir("cwd", <<>>) ELSE Dir(out_dir, base)

\* setup_output_path: self.output_files
setup_output_path(inp, flat_mode, out_dir) ==
    [kind \in OutputKinds |->
        [dir |-> OutputPath(flat_mode, out_dir, BaseName(inp)),
         name |-> BaseName(inp) \o OutputSuffix(kind)]]

\* check_existing_files: whether one of the output files exists
check_existing_files(on_disk) == on_disk \cap OutputKinds # {}

\* cleanup_partial_files: the output files left on disk
cleanup_partial_files(on_disk, keep_types) ==
    {k \in on_disk : k \notin OutputKinds \/ k \in keep_types}

(***************************************************************************)
(* PackSpec: commands/pack.py main, from the organizer to the exit.        *)
(***************************************************************************)
InputNames ==
    {<<"X">>, <<"X", ".", "z", "i", "p">>, <<"X", ".", "t", "a", "r", ".", "g", "z">>, <<"g", "u", "i", "t", "a", "r", ".", "z", "i", "p">>, <<"X", ".", "t", "a", "r">>, <<"g", "u", "i", "t", "a", "r">>}
Inputs == [name : InputNames, is_file : BOOLEAN]
PackOptions == [flat : BOOLEAN, no_check : BOOLEAN, no_par2 : BOOLEAN]

PackInit ==
    /\ input_path \in Inputs
    /\ options \in PackOptions
    /\ output_dir \in {"cwd", "D"}
    /\ base_name = None
    /\ output_files = None
    /\ outputs = {}
    /\ failure = None
    /\ pack_exit = None
    /\ existing_before \in SUBSET OutputKinds
    /\ preserved = existing_before
    /\ kstage = "start"
    /\ CleanupIdle /\ PipeIdle /\ VerifyIdle /\ ShowIdle /\ RepairIdle /\ HandlerIdle /\ DetectIdle /\ AnalyzeIdle /\ SweepIdle /\ WindowIdle /\ NestedIdle /\ TarfailIdle /\ RemoveIdle /\ ProcessIdle

packOthers == <<cleanupVars, pipeVars, verifyVars, showVars, repairVars, handlerVars, detectVars, analyzeVars, sweepVars, windowVars, nestedVars, tarfailVars, removeVars, processVars>>

\* step 2 without the test for existing output files
SetupOutputPathUnchecked ==
    /\ kstage = "start"
    /\ base_name' = BaseName(input_path)
    /\ output_files' = setup_output_path(input_path, options.flat, output_dir)
    /\ kstage' = "organized"
    /\ UNCHANGED <<input_path, options, output_dir, outputs, failure, pack_exit,
                   existing_before, preserved, packOthers>>

\* step 2: create_organizer, setup_output_path, check_existing_files and
\* Exit(1) when an output file exists
SetupOutputPath ==
    /\ kstage = "start"
    /\ base_name' = BaseName(input_path)
    /\ output_files' = setup_output_path(input_path, options.flat, output_dir)
    /\ IF check_existing_files(preserved \cup outputs)
       THEN /\ pack_exit' = 1
            /\ kstage' = "exited"
       ELSE /\ kstage' = "organized"
            /\ UNCHANGED pack_exit
    /\ UNCHANGED <<input_path, options, output_dir, outputs, failure,
                   existing_before, preserved, packOthers>>

\* step 4: compress_directory; on failure cleanup_partial_files and Exit(1)
CompressDirectory ==
    /\ kstage = "organized"
    /\ \E success \in BOOLEAN, written \in BOOLEAN :
          IF success
          THEN /\ outputs' = outputs \cup {"archive"}
               /\ preserved' = preserved \ {"archive"}
               /\ kstage' = "compressed"
               /\ UNCHANGED <<failure, pack_exit>>
          ELSE /\ outputs' = cleanup_partial_files(
                                 IF written THEN outputs \cup {"archive"} ELSE outputs, {})
               /\ preserved' = cleanup_partial_files(
                                   IF written THEN preserved \ {"archive"} ELSE preserved, {})
               /\ failure' = "compression"
               /\ pack_exit' = 1
               /\ kstage' = "exited"
    /\ UNCHANGED <<input_path, options, output_dir, base_name, output_files,
                   existing_before, packOthers>>

\* step 5: generate_and_save_hashes unless --no-check; on failure
\* cleanup_partial_files and Exit(1)
GenerateHashes ==
    /\ kstage = "compressed"
    /\ IF options.no_check
       THEN /\ kstage' = "hashed"
            /\ UNCHANGED <<outputs, preserved, failure, pack_exit>>
       ELSE \E written \in SUBSET {"sha256", "blake3"} :
               IF written = {"sha256", "blake3"}
               THEN /\ outputs' = outputs \cup written
                    /\ preserved' = preserved \ written
                    /\ kstage' = "hashed"
                    /\ UNCHANGED <<failure, pack_exit>>
               ELSE /\ outputs' = cleanup_partial_files(outputs \cup written, {})
                    /\ preserved' = cleanup_partial_files(preserved \ written, {})
                    /\ failure' = "hash"
                    /\ pack_exit' = 1
                    /\ kstage' = "exited"
    /\ UNCHANGED <<input_path, options, output_dir, base_name, output_files,
                   existing_before, packOthers>>

\* step 6: PAR2Engine(...).generate_par2 unless --no-par2; every exception,
\* PAR2ToolNotFoundError included, is logged and the command continues
GeneratePar2 ==
    /\ kstage = "hashed"
    /\ IF options.no_par2
       THEN UNCHANGED <<outputs, preserved, failure>>
       ELSE \E outcome \in {"generated", "tool not found", "generation failed"} :
               IF outcome = "generated"
               THEN /\ outputs' = outputs \cup {"par2", "par2 volume"}
                    /\ preserved' = preserved \ {"par2"}
                    /\ UNCHANGED failure
               ELSE /\ failure' = "par2"
                    /\ UNCHANGED <<outputs, preserved>>
    /\ kstage' = "protected"
    /\ UNCHANGED <<input_path, options, output_dir, base_name, output_files,
                   pack_exit, existing_before, packOthers>>

\* step 7: the summary; main returns
PackComplete ==
    /\ kstage = "protected"
    /\ pack_exit' = 0
    /\ kstage' = "exited"
    /\ UNCHANGED <<input_path, options, output_dir, base_name, output_files,
                   outputs, failure, existing_before, preserved, packOthers>>

PackNext ==
    \/ SetupOutputPath
    \/ CompressDirectory
    \/ GenerateHashes
    \/ GeneratePar2
    \/ PackComplete

PackSpec == PackInit /\ [][PackNext]_vars

(***************************************************************************)
(* Claims about pack and the organizer (checked under PackSpec).           *)
(***************************************************************************)
\* C11: when a pipeline stage (compression, hashes, PAR2) failed, pack exits
\* non-zero and none of its output files remains.
C11_FailureAbortsAndCleans ==
    (kstage = "exited" /\ failure # None) =>
        /\ pack_exit # 0
        /\ outputs \cap OutputKinds = {}

\* C17: flat mode puts the four output files directly in the requested output
\* directory, organized mode in its subdirectory named after the base name.
C17_OutputLocation ==
    kstage \notin {"none", "start"} =>
        \A kind \in OutputKinds :
            /\ output_files[kind].name = base_name \o OutputSuffix(kind)
            /\ output_files[kind].dir =
                   IF options.flat THEN Dir(output_dir, <<>>)
                   ELSE Dir(output_dir, base_name)

\* the file stem with one known archive extension (dot included) removed
StemWithoutArchiveExtension(stem) ==
    IF \E i \in 1..Len(ArchiveExtensions) : EndsWith(stem, ArchiveExtensions[i])
    THEN LET i == CHOOSE k \in 1..Len(ArchiveExtensions) :
                      EndsWith(stem, ArchiveExtensions[k])
         IN SubSeq(stem, 1, Len(stem) - Len(ArchiveExtensions[i]))
    ELSE stem

\* C18: the base name is the directory name, or the file stem with a known
\* archive extension stripped and nothing else removed.
C18_BaseName ==
    kstage \notin {"none", "start"} =>
        base_name = IF input_path.is_file
                    THEN StemWithoutArchiveExtension(Stem(input_path.name))
                    ELSE input_path.name

\* C29: pack neither deletes nor overwrites an output file that existed before
\* it started: when one of the four exists it exits non-zero before any
\* compression, so the cleanup of partial outputs after a later failure removes
\* only files of the current run.  Existence is what Path.exists() answers.
C29_ExistingOutputsUntouched ==
    /\ preserved = existing_before
    /\ existing_before # {} =>
           /\ kstage \in {"start", "exited"}
           /\ outputs = {}
           /\ kstage = "exited" => pack_exit = 1

\* pack was started over existing output files and has exited
C29_Witness ==
    /\ kstage = "exited"
    /\ existing_before # {}
    /\ pack_exit = 1
    /\ preserved = existing_before

(***************************************************************************)
(* core/par2.py and commands/repair.py                                     *)
(***************************************************************************)
\* what one run of the par2 tool produced: its return code, whether its output
\* holds the text "repair is required", and the counts parsed from the output
Par2Runs ==
    [returncode : {0, 1, 2}, repair_is_required : BOOLEAN, damaged : {0, 1},
     missing : {0, 1}]

\* verify_par2: the result dictionary
verify_par2(run) ==
    [success |-> run.returncode = 0,
     files_missing |-> run.missing,
     files_damaged |-> run.damaged,
     repairable |-> run.repair_is_required]

\* repair_files: the result dictionary
repair_files(run) == [success |-> run.returncode = 0, files_repaired |-> run.damaged]

\* steps 5-7 of main with the repairable test left out
RepairDecisionIgnoringRepairable(result, only_verify) ==
    IF result.success THEN "no repair needed"
    ELSE IF only_verify THEN "repair required"
    ELSE "attempt repair"

\* steps 5-7 of main: what follows the verification
RepairDecision(result, only_verify) ==
    IF result.success THEN "no repair needed"
    ELSE IF only_verify THEN "repair required"
    ELSE IF ~result.repairable THEN "repair not possible"
    ELSE "attempt repair"

(***************************************************************************)
(* RepairSpec: one run of the repair command.                              *)
(***************************************************************************)
RepairInit ==
    /\ verify_only \in BOOLEAN
    /\ environment \in [tool_found : BOOLEAN, par2_file_exists : BOOLEAN]
    /\ verification_result = NoResult
    /\ repair_result = NoResult
    /\ repair_calls = 0
    /\ diagnosis = None
    /\ repair_exit = None
    /\ rstage = "start"
    /\ CleanupIdle /\ PipeIdle /\ VerifyIdle /\ ShowIdle /\ PackIdle /\ HandlerIdle /\ DetectIdle /\ AnalyzeIdle /\ SweepIdle /\ WindowIdle /\ NestedIdle /\ TarfailIdle /\ RemoveIdle /\ ProcessIdle

repairOthers == <<cleanupVars, pipeVars, verifyVars, showVars, packVars, handlerVars, detectVars, analyzeVars, sweepVars, windowVars, nestedVars, tarfailVars, removeVars, processVars>>

\* step 1: PAR2Engine(); Exit(1) when the tool is not found
InitializePar2 ==
    /\ rstage = "start"
    /\ IF environment.tool_found
       THEN rstage' = "initialized" /\ UNCHANGED <<diagnosis, repair_exit>>
       ELSE /\ rstage' = "exited"
            /\ diagnosis' = "initialization failed"
            /\ repair_exit' = 1
    /\ UNCHANGED <<verify_only, environment, verification_result, repair_result,
                   repair_calls, repairOthers>>

\* steps 2-3: the .par2 file next to the archive; Exit(1) when it is absent
LocatePar2File ==
    /\ rstage = "initialized"
    /\ IF environment.par2_file_exists
       THEN rstage' = "located" /\ UNCHANGED <<diagnosis, repair_exit>>
       ELSE /\ rstage' = "exited"
            /\ diagnosis' = "par2 file not found"
            /\ repair_exit' = 1
    /\ UNCHANGED <<verify_only, environment, verification_result, repair_result,
                   repair_calls, repairOthers>>

\* step 5: verify_par2
VerifyPar2 ==
    /\ rstage = "located"
    /\ \E run \in Par2Runs : verification_result' = verify_par2(run)
    /\ rstage' = "verified"
    /\ UNCHANGED <<verify_only, environment, repair_result, repair_calls, diagnosis,
                   repair_exit, repairOthers>>

\* steps 5-7: return, Exit(1), or go on to the repair
HandleVerification ==
    /\ rstage = "verified"
    /\ LET decision == RepairDecision(verification_result, verify_only)
       IN /\ diagnosis' = decision
          /\ IF decision = "attempt repair"
             THEN rstage' = "repairing" /\ UNCHANGED repair_exit
             ELSE /\ rstage' = "exited"
                  /\ repair_exit' = IF decision = "no repair needed" THEN 0 ELSE 1
    /\ UNCHANGED <<verify_only, environment, verification_result, repair_result,
                   repair_calls, repairOthers>>

\* step 7: repair_files; step 8 when it failed
RepairFiles ==
    /\ rstage = "repairing"
    /\ \E run \in Par2Runs : repair_result' = repair_files(run)
    /\ repair_calls' = repair_calls + 1
    /\ IF repair_result'.success
       THEN rstage' = "repaired" /\ UNCHANGED <<diagnosis, repair_exit>>
       ELSE /\ rstage' = "exited"
            /\ diagnosis' = "repair failed"
            /\ repair_exit' = 1
    /\ UNCHANGED <<verify_only, environment, verification_result, repairOthers>>

\* step 8: the final verification after a successful repair
FinalVerification ==
    /\ rstage = "repaired"
    /\ \E run \in Par2Runs :
          IF verify_par2(run).success
          THEN diagnosis' = "repaired" /\ repair_exit' = 0
          ELSE diagnosis' = "repair incomplete" /\ repair_exit' = 1
    /\ rstage' = "exited"
    /\ UNCHANGED <<verify_only, environment, verification_result, repair_result,
                   repair_calls, repairOthers>>

RepairNext ==
    \/ InitializePar2
    \/ LocatePar2File
    \/ VerifyPar2
    \/ HandleVerification
    \/ RepairFiles
    \/ FinalVerification

RepairSpec == RepairInit /\ [][RepairNext]_vars

(***************************************************************************)
(* Claim about repair (checked under RepairSpec).                          *)
(***************************************************************************)
\* verify_par2 has returned in this run
VerificationDone ==
    \/ rstage \in {"verified", "repairing", "repaired"}
    \/ rstage = "exited" /\ diagnosis \notin {"initialization failed", "par2 file not found"}

MaxEntries == 2
EntryNames == {<<"a">>, <<".", ".", "/", "e">>, <<"/", "e">>, <<"a", "/", ".", ".", "/", "b">>}
Archives ==
    {arc \in UNION {[1..n -> EntryNames] : n \in 1..MaxEntries} :
        \A i, j \in 1..Len(arc) : arc[i] = arc[j] => i = j}

HandlerKinds == {"7z", "zip", "rar", "tar"}
\* what the library's extractall does with a name, depending on the library and
\* its version: "trust" writes where the name says, "strip" drops the root and
\* every ".." segment, "reject" raises at the first name that leaves the
\* destination
LibraryPolicies(kind) ==
    CASE kind = "zip" -> {"strip"}
      [] kind = "tar" -> {"trust", "reject"}
      [] kind = "7z" -> {"trust", "reject"}
      [] kind = "rar" -> {"trust", "strip", "reject"}
Handlers ==
    {h \in [kind : HandlerKinds, is_windows : BOOLEAN,
            policy : {"trust", "strip", "reject"}] : h.policy \in LibraryPolicies(h.kind)}

IsAbsolute(name) == StartsWithSlash(name)
HasDotDotSegment(name) ==
    \E i \in 1..Len(SplitPath(name, <<>>)) : SplitPath(name, <<>>)[i] = <<".", ".">>

RECURSIVE Normalize(_, _)
\* the directory levels a relative path ends at: ".." pops a level, and popping
\* at the top leaves the starting directory
Normalize(parts, acc) ==
    IF parts = <<>> THEN [escaped |-> FALSE, path |-> acc]
    ELSE IF Head(parts) = <<".", ".">>
         THEN IF acc = <<>> THEN [escaped |-> TRUE, path |-> Tail(parts)]
              ELSE Normalize(Tail(parts), SubSeq(acc, 1, Len(acc) - 1))
         ELSE Normalize(Tail(parts), Append(acc, Head(parts)))

\* extract_to / name as the filesystem resolves it
TargetOf(name) ==
    IF IsAbsolute(name) THEN [root |-> "outside", path |-> SplitPath(name, <<>>)]
    ELSE LET n == Normalize(SplitPath(name, <<>>), <<>>)
         IN [root |-> IF n.escaped THEN "outside" ELSE "extract_to", path |-> n.path]

\* sanitize_filename_for_windows on one path component of these names: the
\* trailing dots are removed and an empty result becomes "renamed_file"
sanitize_filename_for_windows(part) ==
    LET sanitized == IF part # <<>> /\ \A i \in 1..Len(part) : part[i] = "."
                     THEN <<>>
                     ELSE part
    IN IF sanitized = <<>> THEN <<"renamed_file">> ELSE sanitized

\* sanitize_path_for_windows: the root separator is skipped and every other
\* component sanitized
sanitize_path_for_windows(name) ==
    LET parts == SplitPath(name, <<>>)
    IN [i \in 1..Len(parts) |-> sanitize_filename_for_windows(parts[i])]

\* the Windows branch of extract_all: every entry is written below extract_to
\* under its sanitized path
ExtractSanitized(arc) ==
    [ok |-> "True",
     written |-> {[entry |-> arc[i], root |-> "extract_to",
                   path |-> sanitize_path_for_windows(arc[i])] : i \in 1..Len(arc)}]

\* the path a stripping library writes to: no root, no ".." component
StripTraversal(name) == SelectSeq(SplitPath(name, <<>>), LAMBDA c : c # <<".", ".">>)

\* the names a rejecting library raises on
Rejected(name) == TargetOf(name).root = "outside" /\ ~IsAbsolute(name)

\* archive.extractall(path=extract_to)
LibraryExtractAll(arc, policy) ==
    LET first_bad == IF \E i \in 1..Len(arc) : Rejected(arc[i])
                     THEN CHOOSE i \in 1..Len(arc) :
                              Rejected(arc[i]) /\ \A j \in 1..(i - 1) : ~Rejected(arc[j])
                     ELSE Len(arc) + 1
    IN CASE policy = "trust" ->
              [ok |-> "True",
               written |-> {[entry |-> arc[i], root |-> TargetOf(arc[i]).root,
                             path |-> TargetOf(arc[i]).path] : i \in 1..Len(arc)}]
         [] policy = "strip" ->
              [ok |-> "True",
               written |-> {[entry |-> arc[i], root |-> "extract_to",
                             path |-> StripTraversal(arc[i])] : i \in 1..Len(arc)}]
         [] policy = "reject" ->
              [ok |-> IF first_bad > Len(arc) THEN "True" ELSE "False",
               written |-> {[entry |-> arc[i], root |-> "extract_to",
                             path |-> StripTraversal(arc[i])] :
                               i \in 1..(first_bad - 1)}]

\* extract_all of SevenZipHandler, ZipHandler, RarHandler and TarHandler
extract_all(h, arc) ==
    IF h.is_windows /\ h.kind # "rar" THEN ExtractSanitized(arc)
    ELSE LibraryExtractAll(arc, h.policy)

(***************************************************************************)
(* HandlerSpec: one extraction by one handler.                             *)
(***************************************************************************)
HandlerInit ==
    /\ handler \in Handlers
    /\ archive_entries \in Archives
    /\ materialized = {}
    /\ extract_ok = None
    /\ hstage = "opened"
    /\ CleanupIdle /\ PipeIdle /\ VerifyIdle /\ ShowIdle /\ PackIdle /\ RepairIdle /\ DetectIdle /\ AnalyzeIdle /\ SweepIdle /\ WindowIdle /\ NestedIdle /\ TarfailIdle /\ RemoveIdle /\ ProcessIdle

handlerOthers == <<cleanupVars, pipeVars, verifyVars, showVars, packVars, repairVars, detectVars, analyzeVars, sweepVars, windowVars, nestedVars, tarfailVars, removeVars, processVars>>

ExtractAll ==
    /\ hstage = "opened"
    /\ materialized' = extract_all(handler, archive_entries).written
    /\ extract_ok' = extract_all(handler, archive_entries).ok
    /\ hstage' = "extracted"
    /\ UNCHANGED <<handler, archive_entries, handlerOthers>>

HandlerNext == ExtractAll

HandlerSpec == HandlerInit /\ [][HandlerNext]_vars

(***************************************************************************)
(* Claim about the handlers (checked under HandlerSpec).                   *)
(***************************************************************************)
UnsafeEntry(name) == IsAbsolute(name) \/ HasDotDotSegment(name)

\* C13: extract_all materializes no entry whose path is absolute or has a ".."
\* segment, writes nothing outside the destination, and still extracts every
\* other entry.
C13_TraversalGuard ==
    hstage = "extracted" =>
        /\ \A m \in materialized : ~UnsafeEntry(m.entry) /\ m.root = "extract_to"
        /\ \A i \in 1..Len(archive_entries) :
               ~UnsafeEntry(archive_entries[i]) =>
                   \E m \in materialized : m.entry = archive_entries[i]

(***************************************************************************)
(* core/format_detector.py: FormatDetector.                                *)
(***************************************************************************)
Unknown == "unknown"

\* self.extension_mapping, in the order the dictionary is written
extension_mapping ==
    << [ext |-> <<".", "7", "z">>, fmt |-> "7z"],
       [ext |-> <<".", "z", "i", "p">>, fmt |-> "zip"],
       [ext |-> <<".", "r", "a", "r">>, fmt |-> "rar"],
       [ext |-> <<".", "t", "a", "r">>, fmt |-> "tar"],
       [ext |-> <<".", "t", "a", "r", ".", "g", "z">>, fmt |-> "tar.gz"],
       [ext |-> <<".", "t", "g", "z">>, fmt |-> "tar.gz"],
       [ext |-> <<".", "t", "a", "r", ".", "b", "z", "2">>, fmt |-> "tar.bz2"],
       [ext |-> <<".", "t", "b", "z", "2">>, fmt |-> "tar.bz2"],
       [ext |-> <<".", "t", "a", "r", ".", "x", "z">>, fmt |-> "tar.xz"],
       [ext |-> <<".", "t", "x", "z">>, fmt |-> "tar.xz"],
       [ext |-> <<".", "g", "z">>, fmt |-> "gz"],
       [ext |-> <<".", "b", "z", "2">>, fmt |-> "bz2"],
       [ext |-> <<".", "x", "z">>, fmt |-> "xz"] >>

\* self.magic_bytes, in the order the dictionary is written; bytes as numbers
magic_bytes ==
    << [fmt |-> "7z", magics |-> {<<55, 122, 188, 175, 39, 28>>}],
       [fmt |-> "zip", magics |-> {<<80, 75, 3, 4>>, <<80, 75, 5, 6>>, <<80, 75, 7, 8>>}],
       [fmt |-> "rar", magics |-> {<<82, 97, 114, 33, 26, 7, 0>>,
                                   <<82, 97, 114, 33, 26, 7, 1, 0>>}],
       [fmt |-> "tar", magics |-> {<<117, 115, 116, 97, 114, 0>>,
                                   <<117, 115, 116, 97, 114, 32, 32, 0>>}],
       [fmt |-> "gz", magics |-> {<<31, 139>>}],
       [fmt |-> "bz2", magics |-> {<<66, 90>>}],
       [fmt |-> "xz", magics |-> {<<253, 55, 122, 88, 90, 0>>}] >>

ArchiveFormat == {magic_bytes[i].fmt : i \in 1..Len(magic_bytes)}
                     \cup {extension_mapping[i].fmt : i \in 1..Len(extension_mapping)}
                     \cup {Unknown}

StartsWith(s, prefix) == Len(s) >= Len(prefix) /\ SubSeq(s, 1, Len(prefix)) = prefix

RECURSIVE SortedByLength(_, _)
\* sorted(items, key=lambda x: sign * len(x[0])): a stable sort, smallest key first
SortedByLength(items, sign) ==
    IF items = <<>> THEN <<>>
    ELSE LET rest == SortedByLength(SubSeq(items, 1, Len(items) - 1), sign)
             x == items[Len(items)]
             k == Cardinality({i \in 1..Len(rest) :
                                  sign * Len(rest[i].ext) <= sign * Len(x.ext)})
         IN SubSeq(rest, 1, k) \o <<x>> \o SubSeq(rest, k + 1, Len(rest))

\* the first format of a list whose extension the name ends with
FirstMatch(file_name, items) ==
    IF \E i \in 1..Len(items) : EndsWith(file_name, items[i].ext)
    THEN items[CHOOSE i \in 1..Len(items) :
                   /\ EndsWith(file_name, items[i].ext)
                   /\ \A j \in 1..(i - 1) : ~EndsWith(file_name, items[j].ext)].fmt
    ELSE Unknown

\* _detect_by_extension
detect_by_extension(name) ==
    FirstMatch(lower(name), SortedByLength(extension_mapping, -1))

\* _detect_by_magic_bytes: content.head is the start of the first 32 bytes,
\* content.long says that the file has 32 bytes or more, content.at257 is what a
\* read at offset 257 gives
detect_by_magic_bytes(content) ==
    IF ~content.readable THEN Unknown
    ELSE IF \E i \in 1..Len(magic_bytes) :
                \E magic \in magic_bytes[i].magics : StartsWith(content.head, magic)
    THEN magic_bytes[CHOOSE i \in 1..Len(magic_bytes) :
                         /\ \E magic \in magic_bytes[i].magics :
                                StartsWith(content.head, magic)
                         /\ \A j \in 1..(i - 1) : \A magic \in magic_bytes[j].magics :
                                ~StartsWith(content.head, magic)].fmt
    ELSE IF content.long /\ StartsWith(content.at257, <<117, 115, 116, 97, 114>>)
    THEN "tar"
    ELSE Unknown

\* detect_format with the two tags in the other order of trust
DetectFormatTrustingMagic(f) ==
    IF ~f.exists \/ ~f.is_file THEN Unknown
    ELSE LET format_by_ext == detect_by_extension(f.name)
             format_by_magic == detect_by_magic_bytes(f.content)
         IN IF format_by_ext = format_by_magic THEN format_by_ext
            ELSE IF format_by_magic # Unknown THEN format_by_magic
            ELSE IF format_by_ext # Unknown THEN format_by_ext
            ELSE Unknown

\* detect_format
detect_format(f) ==
    IF ~f.exists \/ ~f.is_file THEN Unknown
    ELSE LET format_by_ext == detect_by_extension(f.name)
             format_by_magic == detect_by_magic_bytes(f.content)
         IN IF format_by_ext = format_by_magic THEN format_by_ext
            ELSE IF format_by_ext # Unknown THEN format_by_ext
            ELSE IF format_by_magic # Unknown THEN format_by_magic
            ELSE Unknown

(***************************************************************************)
(* DetectSpec: detect_format on one path.                                  *)
(***************************************************************************)
DetectNames ==
    {<<"a">>, <<"a", ".", "t", "x", "t">>, <<"a", ".", "z", "i", "p">>, <<"a", ".", "t", "a", "r">>, <<"a", ".", "t", "a", "r", ".", "g", "z">>, <<"a", ".", "T", "G", "Z">>, <<"a", ".", "g", "z">>,
     <<"a", ".", "t", "a", "r", ".", "x", "z">>, <<"a", ".", "x", "z">>, <<"a", ".", "t", "b", "z", "2">>, <<"a", ".", "7", "z">>, <<"t", "a", "r", "g", "z">>, <<".", "g", "z">>}

Contents ==
    {[readable |-> r, head |-> h, long |-> FALSE, at257 |-> <<>>] :
        r \in BOOLEAN,
        h \in {<<>>, <<0, 0>>, <<55, 122, 188, 175, 39, 28>>, <<80, 75, 3, 4>>,
               <<80, 75, 5, 6, 0>>, <<82, 97, 114, 33, 26, 7, 0>>,
               <<117, 115, 116, 97, 114, 0>>, <<31, 139, 8>>, <<66, 90, 104>>,
               <<253, 55, 122, 88, 90, 0>>, <<80, 75>>}}
    \cup {[readable |-> TRUE, head |-> <<0, 0>>, long |-> TRUE, at257 |-> a] :
              a \in {<<>>, <<117, 115, 116, 97, 114, 0, 48, 48>>,
                     <<117, 115, 116, 97, 114, 32, 32, 0>>, <<0, 0, 0, 0, 0, 0, 0, 0>>}}

Files ==
    {[name |-> n, exists |-> TRUE, is_file |-> TRUE, content |-> c] :
        n \in DetectNames, c \in Contents}
    \cup {[name |-> n, exists |-> e, is_file |-> FALSE,
           content |-> [readable |-> FALSE, head |-> <<>>, long |-> FALSE, at257 |-> <<>>]] :
              n \in DetectNames, e \in BOOLEAN}

DetectInit ==
    /\ file_path \in Files
    /\ detected_format = None
    /\ dstage = "start"
    /\ CleanupIdle /\ PipeIdle /\ VerifyIdle /\ ShowIdle /\ PackIdle /\ RepairIdle /\ HandlerIdle /\ AnalyzeIdle /\ SweepIdle /\ WindowIdle /\ NestedIdle /\ TarfailIdle /\ RemoveIdle /\ ProcessIdle

detectOthers == <<cleanupVars, pipeVars, verifyVars, showVars, packVars, repairVars, handlerVars, analyzeVars, sweepVars, windowVars, nestedVars, tarfailVars, removeVars, processVars>>

DetectFormat ==
    /\ dstage = "start"
    /\ detected_format' = detect_format(file_path)
    /\ dstage' = "detected"
    /\ UNCHANGED <<file_path, detectOthers>>

DetectNext == DetectFormat

DetectSpec == DetectInit /\ [][DetectNext]_vars

(***************************************************************************)
(* Claim about detect_format (checked under DetectSpec).                   *)
(***************************************************************************)
KnownSuffixes == {extension_mapping[i].ext : i \in 1..Len(extension_mapping)}

\* the tag of the longest known suffix a lower-cased name ends with
LongestSuffixTag(name) ==
    LET matching == {x \in KnownSuffixes : EndsWith(lower(name), x)}
    IN IF matching = {} THEN Unknown
       ELSE LET longest == CHOOSE x \in matching : \A y \in matching : Len(y) <= Len(x)
            IN extension_mapping[CHOOSE i \in 1..Len(extension_mapping) :
                                     extension_mapping[i].ext = longest].fmt

\* C14: for an existing regular file_path with extension tag E (the tag of the longest
\* known suffix of the lower-cased name) and magic tag M, detect_format returns E
\* when E = M, the non-unknown one when exactly one is unknown, E when both are
\* known and differ, and unknown when both are unknown.
C14_DetectFormat ==
    (dstage = "detected" /\ file_path.exists /\ file_path.is_file) =>
        LET E == LongestSuffixTag(file_path.name)
            M == detect_by_magic_bytes(file_path.content)
        IN /\ E = M => detected_format = E
           /\ (E = Unknown /\ M # Unknown) => detected_format = M
           /\ (E # Unknown /\ M = Unknown) => detected_format = E
           /\ (E # Unknown /\ M # Unknown /\ E # M) => detected_format = E
           /\ (E = Unknown /\ M = Unknown) => detected_format = Unknown

\* a compound suffix met with the magic of its shorter suffix
C14_Witness ==
    /\ dstage = "detected" /\ file_path.exists /\ file_path.is_file
    /\ EndsWith(file_path.name, <<".", "t", "a", "r", ".", "g", "z">>)
    /\ detect_by_magic_bytes(file_path.content) = "gz"
    /\ detected_format = "tar.gz"

\* C21: detect_format returns unknown for every file that cannot be read: one
\* that is missing, is not a regular file, or fails with an OS error when it is
\* opened or read, whatever its name.
C21_UnreadableIsUnknown ==
    (dstage = "detected"
        /\ (~file_path.exists \/ ~file_path.is_file \/ ~file_path.content.readable)) =>
        detected_format = Unknown

(***************************************************************************)
(* core/archive.py: ArchiveAnalyzer.                                       *)
(***************************************************************************)
\* root_folder: None
NoFolder == <<"None">>

RECURSIVE split(_, _)
\* path.split("/"): the pieces between the separators, empty ones included
split(path, acc) ==
    IF path = <<>> THEN <<acc>>
    ELSE IF Head(path) = "/" THEN <<acc>> \o split(Tail(path), <<>>)
    ELSE split(Tail(path), Append(acc, Head(path)))

\* the test of the loop that collects top_level_entries
IsTopLevel(entry) ==
    LET path_parts == split(entry.path, <<>>)
    IN Len(path_parts) = 1 \/ (Len(path_parts) = 2 /\ path_parts[2] = <<>>)

\* _create_error_structure
create_error_structure(error_msg, format) ==
    [type |-> "error", description |-> [text |-> error_msg, args |-> <<>>],
     has_single_root |-> FALSE, root_folder |-> NoFolder, entries |-> <<>>,
     format |-> format]

\* _create_empty_structure
create_empty_structure(format) ==
    [type |-> "empty", description |-> [text |-> "Empty archive", args |-> <<>>],
     has_single_root |-> FALSE, root_folder |-> NoFolder, entries |-> <<>>,
     format |-> format]

\* _analyze_structure deciding on all the entries instead of the top-level ones
AnalyzeAllEntries(list, format) ==
    IF list = <<>> THEN create_empty_structure(format)
    ELSE IF Len(list) = 1 /\ list[1].is_dir
    THEN [type |-> "single_root",
          description |-> [text |-> "Single root folder", args |-> <<list[1].path>>],
          has_single_root |-> TRUE, root_folder |-> list[1].path,
          entries |-> list, format |-> format]
    ELSE IF Len(list) > 1
    THEN [type |-> "multiple_roots",
          description |->
              [text |-> "Multiple top-level entries",
               args |-> <<Cardinality({i \in 1..Len(list) : list[i].is_dir}),
                          Cardinality({i \in 1..Len(list) : ~list[i].is_dir})>>],
          has_single_root |-> FALSE, root_folder |-> NoFolder,
          entries |-> list, format |-> format]
    ELSE [type |-> "single_file",
          description |-> [text |-> "Single file", args |-> <<list[1].path>>],
          has_single_root |-> FALSE, root_folder |-> NoFolder,
          entries |-> list, format |-> format]

\* _analyze_structure
analyze_structure(list, format) ==
    IF list = <<>> THEN create_empty_structure(format)
    ELSE LET top_level_entries == SelectSeq(list, IsTopLevel)
             dirs == Cardinality({i \in 1..Len(top_level_entries) :
                                      top_level_entries[i].is_dir})
             files == Len(top_level_entries) - dirs
         IN IF Len(top_level_entries) = 1 /\ top_level_entries[1].is_dir
            THEN [type |-> "single_root",
                  description |-> [text |-> "Single root folder",
                                   args |-> <<top_level_entries[1].path>>],
                  has_single_root |-> TRUE,
                  root_folder |-> top_level_entries[1].path,
                  entries |-> list, format |-> format]
            ELSE IF Len(top_level_entries) > 1
            THEN [type |-> "multiple_roots",
                  description |-> [text |-> "Multiple top-level entries",
                                   args |-> <<dirs, files>>],
                  has_single_root |-> FALSE, root_folder |-> NoFolder,
                  entries |-> list, format |-> format]
            ELSE IF top_level_entries # <<>>
            THEN [type |-> "single_file",
                  description |-> [text |-> "Single file",
                                   args |-> <<top_level_entries[1].path>>],
                  has_single_root |-> FALSE, root_folder |-> NoFolder,
                  entries |-> list, format |-> format]
            ELSE [type |-> "unknown",
                  description |-> [text |-> "Unknown structure", args |-> <<>>],
                  has_single_root |-> FALSE, root_folder |-> NoFolder,
                  entries |-> list, format |-> format]

\* create_handler
create_handler(format_name) ==
    CASE format_name = "7z" -> "SevenZipHandler"
      [] format_name = "zip" -> "ZipHandler"
      [] format_name = "rar" -> "RarHandler"
      [] format_name \in {"tar", "tar.gz", "tar.bz2", "tar.xz"} -> "TarHandler"
      [] format_name = "gz" -> "GzipHandler"
      [] format_name = "bz2" -> "Bzip2Handler"
      [] format_name = "xz" -> "XzHandler"
      [] OTHER -> None

\* analyze_archive_structure: a.format is what detect_format returned, a.rar_ok what
\* validate_rar_requirements returns, a.raises whether a call raised
analyze_archive_structure(a, list) ==
    IF a.format = Unknown THEN create_error_structure("Unsupported format", a.format)
    ELSE IF a.format = "rar" /\ ~a.rar_ok
    THEN create_error_structure("RAR processing not available", a.format)
    ELSE IF create_handler(a.format) = None
    THEN create_error_structure("No handler available", a.format)
    ELSE IF a.raises THEN create_error_structure("Analysis failed", a.format)
    ELSE IF list = <<>> THEN create_empty_structure(a.format)
    ELSE analyze_structure(list, a.format)

(***************************************************************************)
(* AnalyzeSpec: the analysis of one entry list, which may then grow by a   *)
(* top-level file and be analysed again.                                   *)
(***************************************************************************)
MaxListed == 2
MaxGrowths == 1

ArchiveEntries ==
    {[path |-> <<"d", "/">>, is_dir |-> TRUE], [path |-> <<"d">>, is_dir |-> TRUE],
     [path |-> <<"f">>, is_dir |-> FALSE], [path |-> <<"d", "/", "f">>, is_dir |-> FALSE],
     [path |-> <<"d", "/", "e", "/">>, is_dir |-> TRUE]}
TopLevelFiles == {[path |-> <<"g">>, is_dir |-> FALSE]}
EntryLists == UNION {[1..n -> ArchiveEntries] : n \in 0..MaxListed}
AnalyzedArchives ==
    [format : {Unknown, "zip", "rar"}, rar_ok : BOOLEAN, raises : BOOLEAN]

AnalyzeInit ==
    /\ archive \in AnalyzedArchives
    /\ entries \in EntryLists
    /\ structure_info = NoResult
    /\ grown_from = None
    /\ growths = 0
    /\ astage = "start"
    /\ CleanupIdle /\ PipeIdle /\ VerifyIdle /\ ShowIdle /\ PackIdle /\ RepairIdle /\ HandlerIdle /\ DetectIdle /\ SweepIdle /\ WindowIdle /\ NestedIdle /\ TarfailIdle /\ RemoveIdle /\ ProcessIdle

analyzeOthers == <<cleanupVars, pipeVars, verifyVars, showVars, packVars, repairVars, handlerVars, detectVars, sweepVars, windowVars, nestedVars, tarfailVars, removeVars, processVars>>

\* _analyze_structure called on the list
AnalyzeStructure ==
    /\ astage = "start"
    /\ structure_info' = analyze_structure(entries, archive.format)
    /\ astage' = "analyzed"
    /\ UNCHANGED <<archive, entries, grown_from, growths, analyzeOthers>>

\* analyze_archive_structure called on the archive
AnalyzeArchiveStructure ==
    /\ astage = "start"
    /\ structure_info' = analyze_archive_structure(archive, entries)
    /\ astage' = "archive_analyzed"
    /\ UNCHANGED <<archive, entries, grown_from, growths, analyzeOthers>>

\* the environment: a top-level file is added to an analysed list
AddTopLevelFile ==
    /\ astage = "analyzed"
    /\ growths < MaxGrowths
    /\ \E e \in TopLevelFiles : entries' = Append(entries, e)
    /\ grown_from' = structure_info.type
    /\ growths' = growths + 1
    /\ astage' = "start"
    /\ UNCHANGED <<archive, structure_info, analyzeOthers>>

AnalyzeNext == AnalyzeStructure \/ AnalyzeArchiveStructure \/ AddTopLevelFile

AnalyzeSpec == AnalyzeInit /\ [][AnalyzeNext]_vars

(***************************************************************************)
(* Claims about the structure analysis (checked under AnalyzeSpec).        *)
(***************************************************************************)
TopLevel == SelectSeq(entries, IsTopLevel)

\* C15: _analyze_structure classifies by the top-level entries: one, a directory,
\* gives single_root with root_folder its path; more than one gives
\* multiple_roots with the directory and file counts; one, not a directory, gives
\* single_file; the empty list gives empty; and a single_root list that got one
\* more top-level file is multiple_roots.
C15_Classification ==
    astage = "analyzed" =>
        /\ entries = <<>> => structure_info.type = "empty"
        /\ (Len(TopLevel) = 1 /\ TopLevel[1].is_dir) =>
               /\ structure_info.type = "single_root"
               /\ structure_info.root_folder = TopLevel[1].path
        /\ Len(TopLevel) > 1 =>
               /\ structure_info.type = "multiple_roots"
               /\ structure_info.description.args =
                      <<Cardinality({i \in 1..Len(TopLevel) : TopLevel[i].is_dir}),
                        Cardinality({i \in 1..Len(TopLevel) : ~TopLevel[i].is_dir})>>
        /\ (Len(TopLevel) = 1 /\ ~TopLevel[1].is_dir) =>
               structure_info.type = "single_file"
        /\ grown_from = "single_root" => structure_info.type = "multiple_roots"

\* a single_root list with entries below the root, grown by a top-level file
C15_Witness ==
    /\ astage = "analyzed"
    /\ grown_from = "single_root"
    /\ Len(entries) > Len(TopLevel)
    /\ structure_info.type = "multiple_roots"

\* C16: every StructureInfo returned has a kind among empty, single_root,
\* multiple_roots, single_file and error, and has root_folder set exactly when
\* its kind is single_root.
C16_StructureInfoInvariant ==
    astage \in {"analyzed", "archive_analyzed"} =>
        /\ structure_info.type \in
               {"empty", "single_root", "multiple_roots", "single_file", "error"}
        /\ structure_info.root_folder # NoFolder <=> structure_info.type = "single_root"

(***************************************************************************)
(* core/cleanup.py: cleanup_orphaned_temps, the sweep initialize_cleanup   *)
(* runs at startup.                                                        *)
(***************************************************************************)
\* the default prefix of cleanup_orphaned_temps
TrackedPrefix == <<"c", "o", "l", "d", "s", "t", "o", "r", "e", "_">>
\* the age, in seconds, above which an entry is taken to be orphaned
OrphanAge == 3600

\* the entries the loop over temp_base.glob(prefix + "*") collects
Orphaned(items, now, prefix) ==
    {item \in items : StartsWith(item.name, prefix) /\ now - item.st_mtime > OrphanAge}

\* cleanup_orphaned_temps: removed is the set of collected entries whose removal
\* succeeded
cleanup_orphaned_temps(items, removed) == items \ removed

(***************************************************************************)
(* SweepSpec: one startup sweep over a temp directory that holds entries   *)
(* of terminated runs, of other invocations still running, and of others.  *)
(***************************************************************************)
MaxItems == 2
SweepTime == 7200
TempNames == {<<"c", "o", "l", "d", "s", "t", "o", "r", "e", "_", "a">>, <<"c", "o", "l", "d", "s", "t", "o", "r", "e", "_", "e", "x", "t", "r", "a", "c", "t", "_", "b">>, <<"v", "e", "r", "i", "f", "y", "_", "c">>, <<"x", "c", "o", "l", "d", "s", "t", "o", "r", "e", "_", "d">>}
ModificationTimes == {0, SweepTime - OrphanAge - 1, SweepTime - OrphanAge, SweepTime}
\* registered_by: "running" when the tracker of another invocation that is
\* still running holds the entry
TempItems ==
    {item \in [name : TempNames, is_dir : BOOLEAN, st_mtime : ModificationTimes,
               registered_by : {"nobody", "running"}] :
        item.is_dir <=> StartsWith(item.name, TrackedPrefix \o <<"e">>)}
TempBases ==
    {items \in UNION {{{f[i] : i \in 1..n} : f \in [1..n -> TempItems]} :
                          n \in 0..MaxItems} :
        \A x, y \in items : x.name = y.name => x = y}

SweepInit ==
    /\ temp_base \in TempBases
    /\ current_time = SweepTime
    /\ swept = {}
    /\ sstage = "start"
    /\ CleanupIdle /\ PipeIdle /\ VerifyIdle /\ ShowIdle /\ PackIdle /\ RepairIdle /\ HandlerIdle /\ DetectIdle /\ AnalyzeIdle /\ WindowIdle /\ NestedIdle /\ TarfailIdle /\ RemoveIdle /\ ProcessIdle

sweepOthers == <<cleanupVars, pipeVars, verifyVars, showVars, packVars, repairVars, handlerVars, detectVars, analyzeVars, windowVars, nestedVars, tarfailVars, removeVars, processVars>>

\* initialize_cleanup: the sweep; a removal may fail and leave its entry
InitializeCleanup ==
    /\ sstage = "start"
    /\ \E removed \in SUBSET Orphaned(temp_base, current_time, TrackedPrefix) :
           /\ temp_base' = cleanup_orphaned_temps(temp_base, removed)
           /\ swept' = removed
    /\ sstage' = "swept"
    /\ UNCHANGED <<current_time, sweepOthers>>

SweepNext == InitializeCleanup

SweepSpec == SweepInit /\ [][SweepNext]_vars

(***************************************************************************)
(* Claim about the sweep (checked under SweepSpec).                        *)
(***************************************************************************)
\* C20: the sweep removes an entry only if its name starts with the tracked
\* prefix and it is older than one hour, and never an entry that the tracker of
\* another invocation still running holds.
C20_SweepOnlyOrphans ==
    sstage = "swept" =>
        \A item \in swept :
            /\ StartsWith(item.name, TrackedPrefix)
            /\ current_time - item.st_mtime > OrphanAge
            /\ item.registered_by # "running"

(***************************************************************************)
(* The names of the temporary paths (checked under Spec).                  *)
(***************************************************************************)
\* the prefix argument each command passes to create_temp_tar
TempTarPrefixes(cmd) ==
    CASE cmd = "pack" -> {<<"c", "o", "l", "d", "s", "t", "o", "r", "e", "_">>}
      [] cmd = "verify" -> {<<"v", "e", "r", "i", "f", "y", "_">>}
      [] cmd = "extract" -> {<<"c", "o", "l", "d", "s", "t", "o", "r", "e", "_", "d", "e", "c", "o", "m", "p", "r", "e", "s", "s", "_">>}
      [] cmd = "process" -> {<<"c", "o", "l", "d", "s", "t", "o", "r", "e", "_", "i", "n", "f", "o", "_">>, <<"c", "o", "l", "d", "s", "t", "o", "r", "e", "_", "d", "e", "c", "o", "m", "p", "r", "e", "s", "s", "_">>}
      [] OTHER -> {}

\* the prefix prepare_extraction_temp passes to create_managed_temp_dir
ExtractionPrefix == <<"c", "o", "l", "d", "s", "t", "o", "r", "e", "_", "e", "x", "t", "r", "a", "c", "t", "_">>

\* the prefixes the name of an allocated path may have
TempPrefixes(p, cmd) == IF p[1] = "tar" THEN TempTarPrefixes(cmd) ELSE {ExtractionPrefix}

\* C23: every temporary path a command allocates has a name the startup sweep
\* matches, so that the sweep of a later run collects it once it is older than
\* the age threshold.
C23_TempNamesMatchSweep ==
    \A p \in allocated : \A prefix \in TempPrefixes(p, command) :
        Orphaned({[name |-> prefix \o <<"x">>, st_mtime |-> 0]}, SweepTime, TrackedPrefix) # {}

(***************************************************************************)
(* WindowSpec: _calculate_optimal_window_log on one size and platform.     *)
(***************************************************************************)
\* sizes in bytes: both sides of every threshold, and sizes in between
WindowSizes ==
    FileSizes \cup {1, 1024 * 1024, 3 * 1024 * 1024, 10 * 1024 * 1024, 19 * 1024 * 1024,
                    21 * 1024 * 1024, 100 * 1024 * 1024, 199 * 1024 * 1024,
                    201 * 1024 * 1024, 1024 * 1024 * 1024, 2047 * 1024 * 1024}

WindowInit ==
    /\ input_size \in WindowSizes
    /\ host \in Platforms
    /\ optimal_window_log = 0
    /\ wstage = "start"
    /\ CleanupIdle /\ PipeIdle /\ VerifyIdle /\ ShowIdle /\ PackIdle /\ RepairIdle /\ HandlerIdle /\ DetectIdle /\ AnalyzeIdle /\ SweepIdle /\ NestedIdle /\ TarfailIdle /\ RemoveIdle /\ ProcessIdle

windowOthers == <<cleanupVars, pipeVars, verifyVars, showVars, packVars, repairVars, handlerVars, detectVars, analyzeVars, sweepVars, nestedVars, tarfailVars, removeVars, processVars>>

CalculateOptimalWindowLog ==
    /\ wstage = "start"
    /\ optimal_window_log' = calculate_optimal_window_log(input_size, host)
    /\ wstage' = "calculated"
    /\ UNCHANGED <<input_size, host, windowOthers>>

WindowNext == CalculateOptimalWindowLog

WindowSpec == WindowInit /\ [][WindowNext]_vars

(***************************************************************************)
(* Claim about the window log (checked under WindowSpec).                  *)
(***************************************************************************)
\* the largest window log of a platform
PlatformCeiling(p) ==
    CASE p.is_64bit /\ ~p.is_windows -> 31
      [] p.is_64bit /\ p.is_windows -> 30
      [] ~p.is_64bit /\ ~p.is_windows -> 30
      [] ~p.is_64bit /\ p.is_windows -> 29

\* C24: the window log is 20 below 2 MiB, 24 from 2 MiB to below 20 MiB, 27 from
\* 20 MiB to below 200 MiB and the platform ceiling from 200 MiB on (31 on 64-bit
\* non-Windows, 30 on 64-bit Windows and 32-bit non-Windows, 29 on 32-bit
\* Windows), and it does not decrease when the size grows.
C24_WindowLogTable ==
    wstage = "calculated" =>
        /\ input_size < 2 * 1048576 => optimal_window_log = 20
        /\ (2 * 1048576 <= input_size /\ input_size < 20 * 1048576) =>
               optimal_window_log = 24
        /\ (20 * 1048576 <= input_size /\ input_size < 200 * 1048576) =>
               optimal_window_log = 27
        /\ 200 * 1048576 <= input_size => optimal_window_log = PlatformCeiling(host)
        /\ \A smaller \in WindowSizes :
               smaller <= input_size =>
                   calculate_optimal_window_log(smaller, host) <= optimal_window_log

\* a size exactly at the last threshold on the most constrained platform
C24_Witness ==
    /\ wstage = "calculated"
    /\ input_size = 200 * 1048576
    /\ ~host.is_64bit /\ host.is_windows
    /\ optimal_window_log = 29

(***************************************************************************)
(* core/archive.py: handle_nested_structure.                               *)
(***************************************************************************)
\* the directory the archive was extracted to
ExtractedPath == << <<"x">> >>

\* extracted_path / root_folder
RootPath(extracted_path, root_folder) == extracted_path \o SplitPath(root_folder, <<>>)

\* handle_nested_structure that flattens whenever the root folder has a child
HandleNestedAnyChild(extracted_path, info, root) ==
    IF ~info.has_single_root THEN extracted_path
    ELSE IF info.root_folder = NoFolder \/ info.root_folder = <<>> THEN extracted_path
    ELSE IF root.exists /\ root.is_dir /\ root.listable /\ Len(root.contents) >= 1
    THEN RootPath(extracted_path, info.root_folder)
    ELSE extracted_path

\* contents[0].is_file(): false also for a file that cannot be examined (the call
\* raises inside the try block, or returns false)
is_file(child) == child = "file"

\* handle_nested_structure: root is what the filesystem holds at root_path;
\* root.listable is false when root_path.iterdir() raises
handle_nested_structure(extracted_path, info, root) ==
    IF ~info.has_single_root THEN extracted_path
    ELSE IF info.root_folder = NoFolder \/ info.root_folder = <<>> THEN extracted_path
    ELSE IF root.exists /\ root.is_dir
    THEN IF ~root.listable THEN extracted_path
         ELSE IF Len(root.contents) > 1
                 \/ (Len(root.contents) = 1 /\ is_file(root.contents[1]))
         THEN RootPath(extracted_path, info.root_folder)
         ELSE extracted_path
    ELSE extracted_path

(***************************************************************************)
(* NestedSpec: handle_nested_structure on the result of an analysis and    *)
(* the extracted tree.                                                     *)
(***************************************************************************)
MaxChildren == 2
\* a child: a file, a folder, neither, or a file that cannot be examined (the
\* folder grants no search permission)
ChildKinds == {"file", "dir", "other", "file_no_stat"}
RootStates ==
    {[exists |-> FALSE, is_dir |-> FALSE, listable |-> FALSE, contents |-> <<>>],
     [exists |-> TRUE, is_dir |-> FALSE, listable |-> FALSE, contents |-> <<>>]}
    \cup {[exists |-> TRUE, is_dir |-> TRUE, listable |-> l, contents |-> c] :
              l \in BOOLEAN, c \in UNION {[1..n -> ChildKinds] : n \in 0..MaxChildren}}
\* the values the analysis returns
StructureInfos ==
    {analyze_archive_structure(a, l) : a \in AnalyzedArchives, l \in EntryLists}

NestedInit ==
    /\ nested_info \in StructureInfos
    /\ root_state \in RootStates
    /\ nested_result = <<>>
    /\ nstage = "start"
    /\ CleanupIdle /\ PipeIdle /\ VerifyIdle /\ ShowIdle /\ PackIdle /\ RepairIdle /\ HandlerIdle /\ DetectIdle /\ AnalyzeIdle /\ SweepIdle /\ WindowIdle /\ TarfailIdle /\ RemoveIdle /\ ProcessIdle

nestedOthers == <<cleanupVars, pipeVars, verifyVars, showVars, packVars, repairVars, handlerVars, detectVars, analyzeVars, sweepVars, windowVars, tarfailVars, removeVars, processVars>>

HandleNestedStructure ==
    /\ nstage = "start"
    /\ nested_result' = handle_nested_structure(ExtractedPath, nested_info, root_state)
    /\ nstage' = "handled"
    /\ UNCHANGED <<nested_info, root_state, nestedOthers>>

NestedNext == HandleNestedStructure

NestedSpec == NestedInit /\ [][NestedNext]_vars

(***************************************************************************)
(* Claims about handle_nested_structure (checked under NestedSpec).        *)
(***************************************************************************)
\* the root folder exists and holds more than one child, or one child, a file
WorthFlattening ==
    /\ root_state.exists /\ root_state.is_dir
    /\ \/ Len(root_state.contents) > 1
       \/ /\ Len(root_state.contents) = 1
          /\ root_state.contents[1] \in {"file", "file_no_stat"}

\* the children of the root folder can be listed and, when there is one only,
\* examined
Inspectable ==
    /\ root_state.listable
    /\ Len(root_state.contents) = 1 => root_state.contents[1] # "file_no_stat"

\* C25 as stated: for a single_root structure handle_nested_structure returns
\* the root-folder path if and only if that folder exists and has more than one
\* immediate child or exactly one child that is a file; in every other case it
\* returns the extraction root.
C25_FlattenAsStated ==
    nstage = "handled" =>
        nested_result =
            IF nested_info.type = "single_root" /\ WorthFlattening
            THEN RootPath(ExtractedPath, nested_info.root_folder)
            ELSE ExtractedPath

\* C25 amended: the same, for a root folder whose children can be listed and
\* examined; when inspecting the folder fails the extraction root is returned.
C25_FlattenWhenListable ==
    nstage = "handled" =>
        nested_result =
            IF nested_info.type = "single_root" /\ WorthFlattening /\ Inspectable
            THEN RootPath(ExtractedPath, nested_info.root_folder)
            ELSE ExtractedPath

\* a single root folder holding one file is flattened
C25_Witness ==
    /\ nstage = "handled"
    /\ nested_info.type = "single_root"
    /\ root_state.listable /\ root_state.contents = <<"file">>
    /\ nested_result = RootPath(ExtractedPath, nested_info.root_folder)
    /\ nested_result # ExtractedPath

(***************************************************************************)
(* core/compress.py: create_deterministic_tar on a source with entries     *)
(* that cannot be stat'd or read.                                          *)
(***************************************************************************)
\* the loop of create_deterministic_tar over file_list: gettarinfo or open raises
\* OSError on an entry that cannot be stat'd or read, and the entry is skipped
AddedEntries(items) == SelectSeq(items, LAMBDA item : item.readable)

\* create_deterministic_tar, result and effect: ok is the value returned,
\* produced whether tar_path exists afterwards, added the entries written
create_deterministic_tar_outcome(source, writable) ==
    IF ~writable THEN [ok |-> FALSE, produced |-> FALSE, added |-> <<>>]
    ELSE IF source.is_file
    THEN IF source.items[1].readable
         THEN [ok |-> TRUE, produced |-> TRUE, added |-> source.items]
         ELSE [ok |-> FALSE, produced |-> TRUE, added |-> <<>>]
    ELSE [ok |-> TRUE, produced |-> TRUE, added |-> AddedEntries(source.items)]

(***************************************************************************)
(* TarFailSpec: one call of create_deterministic_tar.                      *)
(***************************************************************************)
MaxTarItems == 2
SourceItems == [kind : {"file", "dir", "link"}, readable : BOOLEAN]
TarSources ==
    {[is_file |-> TRUE, items |-> <<[kind |-> "file", readable |-> r]>>] : r \in BOOLEAN}
    \cup {[is_file |-> FALSE, items |-> l] :
              l \in UNION {[1..n -> SourceItems] : n \in 0..MaxTarItems}}

TarFailInit ==
    /\ tar_source \in TarSources
    /\ tar_writable \in BOOLEAN
    /\ tar_outcome = NoResult
    /\ tstage = "start"
    /\ CleanupIdle /\ PipeIdle /\ VerifyIdle /\ ShowIdle /\ PackIdle /\ RepairIdle /\ HandlerIdle /\ DetectIdle /\ AnalyzeIdle /\ SweepIdle /\ WindowIdle /\ NestedIdle /\ RemoveIdle /\ ProcessIdle

tarfailOthers == <<cleanupVars, pipeVars, verifyVars, showVars, packVars, repairVars, handlerVars, detectVars, analyzeVars, sweepVars, windowVars, nestedVars, removeVars, processVars>>

CreateTarWithUnreadableEntries ==
    /\ tstage = "start"
    /\ tar_outcome' = create_deterministic_tar_outcome(tar_source, tar_writable)
    /\ tstage' = "done"
    /\ UNCHANGED <<tar_source, tar_writable, tarfailOthers>>

TarFailNext == CreateTarWithUnreadableEntries

TarFailSpec == TarFailInit /\ [][TarFailNext]_vars

(***************************************************************************)
(* Claim about the failure policy (checked under TarFailSpec).             *)
(***************************************************************************)
\* C26: create_deterministic_tar skips each entry that cannot be stat'd or read
\* and goes on with the others; it reports failure when the tar was not produced
\* or when the source has entries and none could be added, and success when the
\* tar was produced with at least one entry.
C26_FailurePolicy ==
    tstage = "done" =>
        /\ (tar_outcome.produced /\ ~tar_source.is_file) =>
               tar_outcome.added = SelectSeq(tar_source.items, LAMBDA item : item.readable)
        /\ (~tar_outcome.produced
               \/ (tar_source.items # <<>> /\ tar_outcome.added = <<>>)) => ~tar_outcome.ok
        /\ (tar_outcome.produced /\ tar_outcome.added # <<>>) => tar_outcome.ok


(***************************************************************************)
(* core/cleanup.py and core/win_utils.py: forced removal with retries.     *)
(* What the filesystem does at the k-th removal attempt is an input:       *)
(*   "removed"  unlink / rmtree succeeds                                   *)
(*   "locked"   unlink / rmtree raises PermissionError or another OSError  *)
(*   "vanished" the path is gone by the time of the attempt (removed by    *)
(*              somebody else); unlink / rmtree raise FileNotFoundError,   *)
(*              exists() answers False                                     *)
(***************************************************************************)
AttemptOutcomes == {"removed", "locked", "vanished"}

\* the retry loop of _force_remove_file and _force_remove_directory
\* (cleanup.py:41-69, 100-141): attempt counts the iterations already done;
\* the result holds the value returned and the number of unlink / rmtree calls
RECURSIVE StandardRetryLoop(_, _, _)
StandardRetryLoop(outcomes, max_retries, attempt) ==
    IF attempt >= max_retries
    THEN [returned |-> "False", attempts |-> attempt]
    ELSE IF outcomes[attempt + 1] = "removed"
    THEN [returned |-> "True", attempts |-> attempt + 1]
    ELSE IF attempt < max_retries - 1
    THEN StandardRetryLoop(outcomes, max_retries, attempt + 1)
    ELSE [returned |-> "False", attempts |-> attempt + 1]

\* the retry loop of windows_safe_remove and windows_safe_rmdir
\* (win_utils.py:208-250, 269-300): exists() is asked again in every iteration
RECURSIVE WindowsRetryLoop(_, _, _, _)
WindowsRetryLoop(outcomes, max_retries, attempt, calls) ==
    IF attempt >= max_retries
    THEN [returned |-> "False", attempts |-> calls]
    ELSE IF outcomes[attempt + 1] = "vanished"
    THEN [returned |-> "True", attempts |-> calls]
    ELSE IF outcomes[attempt + 1] = "removed"
    THEN [returned |-> "True", attempts |-> calls + 1]
    ELSE IF attempt < max_retries - 1
    THEN WindowsRetryLoop(outcomes, max_retries, attempt + 1, calls + 1)
    ELSE [returned |-> "False", attempts |-> calls + 1]

\* _cleanup_directory_contents: the files of the directory on which
\* _force_remove_file is called; nothing when the directory is gone, and the
\* walk over rglob("*") ends at the first OSError it raises
cleanup_directory_contents(dir_exists, inside, walk) ==
    IF ~dir_exists THEN {}
    ELSE IF walk = "raises" THEN {}
    ELSE inside

\* whether the standard loop ran into a failed attempt, after which
\* _cleanup_directory_contents is called (cleanup.py:131, 139)
FailedAttempt(outcomes, result) ==
    \E k \in 1..result.attempts : outcomes[k] # "removed"

\* whether the path is still there after the attempts the loop made
StillExists(outcomes, result) ==
    \A k \in 1..result.attempts : outcomes[k] = "locked"

\* _force_remove_file(file_path, max_retries)
force_remove_file(target) ==
    IF ~target.exists
    THEN [returned |-> "True", attempts |-> 0, tried |-> {}]
    ELSE IF target.system = "Windows"
    THEN WindowsRetryLoop(target.outcomes, target.max_retries, 0, 0) @@ [tried |-> {}]
    ELSE StandardRetryLoop(target.outcomes, target.max_retries, 0) @@ [tried |-> {}]

\* _force_remove_directory(dir_path, max_retries); tried are the files inside
\* on which a removal was attempted one by one
force_remove_directory(target) ==
    IF ~target.exists
    THEN [returned |-> "True", attempts |-> 0, tried |-> {}]
    ELSE IF target.system = "Windows"
    THEN WindowsRetryLoop(target.outcomes, target.max_retries, 0, 0) @@ [tried |-> {}]
    ELSE LET result == StandardRetryLoop(target.outcomes, target.max_retries, 0)
         IN  result @@
             [tried |-> IF FailedAttempt(target.outcomes, result)
                        THEN cleanup_directory_contents(
                                 \A k \in 1..result.attempts :
                                     target.outcomes[k] # "vanished",
                                 target.inside, target.walk)
                        ELSE {}]

(***************************************************************************)
(* RemoveSpec: one call of _force_remove_file or _force_remove_directory.  *)
(***************************************************************************)
MaxRetries == 2
InsideFiles == {"f1", "f2"}

\* once the path is gone it stays gone
Monotone(outcomes) ==
    \A i, j \in DOMAIN outcomes :
        (i < j /\ outcomes[i] = "vanished") => outcomes[j] = "vanished"

RemoveTargets ==
    {t \in [kind : {"file", "dir"}, exists : BOOLEAN, system : {"Linux", "Windows"},
            max_retries : 1..MaxRetries, inside : SUBSET InsideFiles,
            walk : {"complete", "raises"},
            outcomes : [1..MaxRetries -> AttemptOutcomes]] :
        /\ Monotone(t.outcomes)
        /\ t.kind = "file" => (t.inside = {} /\ t.walk = "complete")}

RemoveInit ==
    /\ remove_target \in RemoveTargets
    /\ remove_outcome = NoResult
    /\ mstage = "start"
    /\ CleanupIdle /\ PipeIdle /\ VerifyIdle /\ ShowIdle /\ PackIdle /\ RepairIdle /\ HandlerIdle /\ DetectIdle /\ AnalyzeIdle /\ SweepIdle /\ WindowIdle /\ NestedIdle /\ TarfailIdle /\ ProcessIdle

removeOthers == <<cleanupVars, pipeVars, verifyVars, showVars, packVars, repairVars, handlerVars, detectVars, analyzeVars, sweepVars, windowVars, nestedVars, tarfailVars, processVars>>

ForceRemoveFile ==
    /\ mstage = "start"
    /\ remove_target.kind = "file"
    /\ remove_outcome' = force_remove_file(remove_target)
    /\ mstage' = "returned"
    /\ UNCHANGED <<remove_target, removeOthers>>

ForceRemoveDirectory ==
    /\ mstage = "start"
    /\ remove_target.kind = "dir"
    /\ remove_outcome' = force_remove_directory(remove_target)
    /\ mstage' = "returned"
    /\ UNCHANGED <<remove_target, removeOthers>>

RemoveNext == ForceRemoveFile \/ ForceRemoveDirectory

RemoveSpec == RemoveInit /\ [][RemoveNext]_vars

(***************************************************************************)
(* Claim about forced removal (checked under RemoveSpec).                  *)
(***************************************************************************)
\* the path is gone, or an attempt succeeded, within the first max_retries attempts
GoneOrRemoved(target) ==
    \/ ~target.exists
    \/ \E k \in 1..target.max_retries : target.outcomes[k] # "locked"

\* C27: a forced removal makes at most max_retries removal attempts; it returns
\* true as soon as the path no longer exists or an attempt succeeds, false after
\* the last failed attempt, and a directory that could not be removed has by
\* then had a removal attempted on each file inside it.
C27_BoundedRemoval ==
    mstage = "returned" =>
        /\ remove_outcome.attempts <= remove_target.max_retries
        /\ remove_outcome.returned = "True" <=> GoneOrRemoved(remove_target)
        /\ remove_outcome.returned = "False" =>
               remove_outcome.attempts = remove_target.max_retries
        /\ (remove_target.kind = "dir" /\ remove_outcome.returned = "False"
                /\ StillExists(remove_target.outcomes, remove_outcome)) =>
               remove_outcome.tried = remove_target.inside


(***************************************************************************)
(* commands/process.py: main, with CompressionEngine.get_archive_info.     *)
(* A dictionary is modelled by the set of its keys where only the presence *)
(* of a key matters.                                                       *)
(***************************************************************************)
\* get_archive_info: the keys of the dictionary it returns
get_archive_info(decompressible) ==
    IF ~decompressible
    THEN {"error"}
    ELSE {"files", "folders", "total_size", "compressed_size", "format"}

\* the keys main reads from archive_info right after the call (process.py:73-75)
InfoKeysRead == {"compressed_size", "memory_required_mb", "window_log"}

\* has_failures = any(r is False for r in verification_results.values())
has_failures(verification_results) ==
    \E c \in DOMAIN verification_results : verification_results[c] = "False"

\* Step 4 of main: the value of verification_passed after the verification phase
verification_phase(input) ==
    IF input.no_check THEN TRUE
    ELSE IF input.verification.raises THEN FALSE
    ELSE ~has_failures(input.verification.results)

\* Step 6 of main, entered at process.py:131
extraction_phase(input, passed) ==
    IF input.extract_dir_nonempty /\ ~input.force
    THEN [at |-> "output_exists", exit |-> "1", extraction |-> TRUE,
          verification_passed |-> passed]
    ELSE IF input.decompress_archive # "True"
    THEN [at |-> "extraction_failed", exit |-> "1", extraction |-> TRUE,
          verification_passed |-> passed]
    ELSE [at |-> "summary", exit |-> "0", extraction |-> TRUE,
          verification_passed |-> passed]

\* main of the process command: at is where it ended, exit its exit code
\* ("KeyError" for the uncaught exception), extraction whether Step 6 was entered
process_main(input) ==
    IF ~EndsWith(input.name, <<".", "t", "a", "r", ".", "z", "s", "t">>)
    THEN [at |-> "extension", exit |-> "1", extraction |-> FALSE,
          verification_passed |-> TRUE]
    ELSE LET archive_info == get_archive_info(input.decompressible)
         IN  IF ~(InfoKeysRead \subseteq archive_info)
             THEN [at |-> "archive_info", exit |-> "KeyError", extraction |-> FALSE,
                   verification_passed |-> TRUE]
             ELSE IF ~input.verify_only /\ ~input.requirements_ok
             THEN [at |-> "requirements", exit |-> "1", extraction |-> FALSE,
                   verification_passed |-> TRUE]
             ELSE LET passed == verification_phase(input)
                  IN  IF input.verify_only
                      THEN [at |-> "verify_only", exit |-> IF passed THEN "0" ELSE "1",
                            extraction |-> FALSE, verification_passed |-> passed]
                      ELSE IF ~passed /\ ~input.no_check
                      THEN [at |-> "verification_failed", exit |-> "1",
                            extraction |-> FALSE, verification_passed |-> passed]
                      ELSE extraction_phase(input, passed)

(***************************************************************************)
(* ProcessSpec: one run of the process command.                            *)
(***************************************************************************)
ProcessNames ==
    {<<"a", ".", "t", "a", "r", ".", "z", "s", "t">>, <<"a", ".", "z", "s", "t">>, <<"a", ".", "t", "a", "r">>}

\* verify_single_archive answers True or False for the zstd and tar checks and
\* True, False or None for the two hashes; show_verification_results may raise
VerificationOutcomes ==
    {[raises |-> FALSE, results |-> r] :
         r \in {f \in [Checks -> {"True", "False", "None"}] :
                    f["zstd_integrity"] # "None" /\ f["tar_integrity"] # "None"}}
    \cup {[raises |-> TRUE, results |-> [c \in Checks |-> "None"]]}

ProcessInputs ==
    [name : ProcessNames, decompressible : BOOLEAN, requirements_ok : BOOLEAN,
     verify_only : BOOLEAN, no_check : BOOLEAN, force : BOOLEAN,
     extract_dir_nonempty : BOOLEAN, verification : VerificationOutcomes,
     decompress_archive : {"True", "False", "raises"}]

ProcessInit ==
    /\ process_input \in ProcessInputs
    /\ process_outcome = NoResult
    /\ ostage = "start"
    /\ CleanupIdle /\ PipeIdle /\ VerifyIdle /\ ShowIdle /\ PackIdle /\ RepairIdle /\ HandlerIdle /\ DetectIdle /\ AnalyzeIdle /\ SweepIdle /\ WindowIdle /\ NestedIdle /\ TarfailIdle /\ RemoveIdle

processOthers == <<cleanupVars, pipeVars, verifyVars, showVars, packVars, repairVars, handlerVars, detectVars, analyzeVars, sweepVars, windowVars, nestedVars, tarfailVars, removeVars>>

ProcessMain ==
    /\ ostage = "start"
    /\ process_outcome' = process_main(process_input)
    /\ ostage' = "done"
    /\ UNCHANGED <<process_input, processOthers>>

ProcessNext == ProcessMain

ProcessSpec == ProcessInit /\ [][ProcessNext]_vars

(***************************************************************************)
(* Claim about the extraction gate (checked under ProcessSpec).            *)
(***************************************************************************)
\* a verification check reported failure, or the verification itself failed
VerificationFailed(input) ==
    input.verification.raises
        \/ \E c \in Checks : input.verification.results[c] = "False"

\* C28: for an artifact named *.tar.zst whose preflight check passes, process
\* enters the extraction stage exactly when --verify-only is not set and either
\* no verification check reported failure or --no-check was given; it never
\* starts extraction after a failed verification.
C28_ExtractionGate ==
    (/\ ostage = "done"
     /\ EndsWith(process_input.name, <<".", "t", "a", "r", ".", "z", "s", "t">>)
     /\ process_input.requirements_ok) =>
        /\ process_outcome.extraction <=>
               (/\ ~process_input.verify_only
                /\ (process_input.no_check \/ ~VerificationFailed(process_input)))
        /\ (~process_input.no_check /\ VerificationFailed(process_input)) =>
               ~process_outcome.extraction


(***************************************************************************)
(* Claim about cleanup_all (checked under Spec).                           *)
(***************************************************************************)
\* cleanup_all, called by the main flow with no teardown in progress, returns
CleanupAllReturns ==
    /\ Depth = 1
    /\ \/ /\ At("ca_check")
          /\ ~cleanup_in_progress
          /\ CleanupAllCheck
          /\ frames'[1].pc = "idle"
       \/ /\ At("ca_finally")
          /\ CleanupAllFinally

\* C30: whenever cleanup_all (manual_cleanup) is invoked while no teardown is in
\* progress, it removes every registered file and directory and runs every
\* registered callback, whether or not the registration of the signal handlers
\* was performed or succeeded.
C30_CleanupAllTearsDown ==
    [][CleanupAllReturns =>
           /\ temp_files' = <<>>
           /\ temp_directories' = <<>>
           /\ cleanup_callbacks' = <<>>
           /\ \A p \in SeqToSet(temp_files) \cup SeqToSet(temp_directories) :
                  p \notin disk']_vars

====
